---- MODULE Spec2Model ----
(***************************************************************************)
(* Retrieval-and-ranking engine of LegalWorker (api/app/services).         *)
(*                                                                         *)
(* Text is a sequence of character codes (32 = space, 10 = newline,        *)
(* 97 = 'a', ...).  An index file holds the JSON document that             *)
(* index_document dumps: three arrays texts, pages, embeddings.            *)
(*                                                                         *)
(* The module carries several specifications over one set of variables:    *)
(*   SpecChunk  - the chunker _chunk_pages applied to bounded inputs       *)
(*   Spec       - the index store: index_document tasks interleaved at     *)
(*                their await points with _load_index                      *)
(*   SpecRank   - the candidate ordering of answer_question                *)
(*   SpecServe  - an index_document task and an answer_question request    *)
(*                interleaved at their await points                        *)
(*   SpecMmr    - _mmr_indices applied to bounded inputs                   *)
(*   SpecJudge  - _llm_rerank applied to bounded provider responses        *)
(*   SpecModels - _get_models: the retry loop, await by await              *)
(*   SpecWindow - _chunk_pages statement by statement, called twice on     *)
(*                the same arguments, with another call in between         *)
(*   SpecUpload - save_pdf_files calls interleaved at their await points   *)
(*                and with delete_document, rename_document, set_overview  *)
(***************************************************************************)
EXTENDS Integers, Sequences, FiniteSets, TLC

VARIABLES
    \* ---- chunker harness
    pages_in,      \* _chunk_pages argument pages
    max_chars,     \* _chunk_pages argument max_chars
    overlap,       \* _chunk_pages argument overlap
    chunks,        \* value returned by _chunk_pages
    chunk_pc,      \* "ready" before the call, "done" after it
    \* ---- index store
    registry,      \* the "docs" of STORAGE_DIR/index.json: document id ->
                   \* its entry (name, file, overview)
    storage,       \* names of the files that stand in STORAGE_DIR
    vecfile,       \* VEC_DIR: document id -> content of <doc_id>.json
    bpc,           \* index_document task -> "idle", "ensure", "embed"
    bdoc,          \* task -> its doc_id argument
    btexts,        \* task -> local texts
    bpages,        \* task -> local pages_arr
    bidx,          \* task -> ollama_embed's loop index idx
    bout,          \* task -> ollama_embed's local out
    bret,          \* task -> outcome of its last call
    loaded,        \* the _load_index call made by the last step, if any
    \* ---- history of the index store (not program state)
    committed,     \* doc id -> arrays of the last build that returned ok
    bwrote,        \* task -> its current or last call changed a file
    bconc,         \* task -> its call overlapped another call on its doc
    bhist,         \* task -> its current or last call: were the pages it
                   \* read blank, did it call ollama_embed
    \* ---- answer_question (one request)
    a_pc,          \* "idle", "embed" (awaiting the query vector), "rerank"
                   \* (awaiting the judge's chat), "chat", "done"
    a_req,         \* the request: doc_id, k, strategy, mmr_lambda, use_llm_rerank
    a_idx,         \* local idx, the loaded index
    a_qv,          \* the query vector as the provider returned it
    a_sims,        \* local sims = E @ qv, one per chunk
    a_cos,         \* list(np.argsort(-sims)[:cand_n]), 0-based chunk indices
    a_cand,        \* local cand after the strategy has been applied
    a_top,         \* local top
    a_ctx,         \* local ctx, the rendered context items
    a_out,         \* how the request ended
    a_hist,        \* history of the request (not program state): the file
                   \* its load found, its ollama_embed calls, its last chat
    \* ---- _mmr_indices harness
    m_pc,          \* "idle", "ready" before the call, "done" after it
    m_E,           \* argument E, rows of unit length
    m_qv,          \* argument qv
    m_k,           \* argument k
    m_lam,         \* argument lam, in tenths
    m_sel,         \* value returned
    \* ---- _llm_rerank harness
    j_pc,          \* "idle", "ready" before the call, "done" after it
    j_n,           \* len(texts)
    j_k,           \* argument k
    j_reply,       \* what the chat provider does with the request
    j_out,         \* value returned
    \* ---- _get_models (one call)
    g_pc,          \* "idle", "ready" before the call, "request" (awaiting
                   \* client.get), "sleep" (awaiting asyncio.sleep), "done"
    g_retries,     \* argument retries
    g_backoff,     \* argument backoff, in seconds
    g_i,           \* loop variable i; retries at the final attempt
    g_out,         \* how the call ended
    \* ---- history of the call (not program state)
    g_log,         \* outcome of each request made, in order
    g_waits,       \* seconds of each sleep, in order
    \* ---- _chunk_pages, statement by statement
    w_pc,          \* "idle", "ready", "page" (head of the for loop),
                   \* "window" (head of the while loop), "done"
    w_pages,       \* argument pages
    w_mc,          \* argument max_chars
    w_ov,          \* argument overlap
    w_i,           \* loop variable i (0-based)
    w_t,           \* local t, the stripped page
    w_start,       \* local start
    w_chunks,      \* local chunks
    \* ---- history of the call (not program state)
    w_windows,     \* page, start and end of each chunk appended, in order
    \* ---- the caller of _chunk_pages (not state of the function)
    w_call,        \* the call under way: "first", "other" (one on other
                   \* arguments), "again" (the second on the first's)
    w_arg,         \* the arguments of the first call
    w_first,       \* value the first call returned
    w_mid,         \* value the call on other arguments returned
    \* ---- save_pdf_files (one call per request task)
    u_pc,          \* task -> "idle", "read", "open", "write", "close",
                   \* "raise" (f.write raised, the handle is closing), "done"
    u_files,       \* task -> argument files, the file names (<<>>: none)
    u_name,        \* task -> local name of the file the call is at
    u_fd,          \* task -> the file its open handle f refers to: "none",
                   \* "file" (a document's, or one without a name),
                   \* "tmp" (index.json.tmp), "index" (index.json)
    u_docs,        \* task -> local docs, the ids it holds
    u_results,     \* task -> local results, the ids appended
    u_ret,         \* task -> what the call returned
    \* ---- history of the uploads (not program state)
    u_returned,    \* ids some call has returned to its caller
    u_calls        \* the calls of delete_document, rename_document and
                   \* set_overview made so far: <<function, doc_id>>

chunkVars == <<pages_in, max_chars, overlap, chunks, chunk_pc>>
storeVars == <<registry, storage, vecfile, bpc, bdoc, btexts, bpages, bidx, bout, bret,
               loaded, committed, bwrote, bconc, bhist>>

askVars == <<a_pc, a_req, a_idx, a_qv, a_sims, a_cos, a_cand, a_top, a_ctx, a_out,
             a_hist>>

mmrVars == <<m_pc, m_E, m_qv, m_k, m_lam, m_sel>>
judgeVars == <<j_pc, j_n, j_k, j_reply, j_out>>
getVars == <<g_pc, g_retries, g_backoff, g_i, g_out, g_log, g_waits>>
winCaller == <<w_call, w_arg, w_first, w_mid>>
winVars == <<w_pc, w_pages, w_mc, w_ov, w_i, w_t, w_start, w_chunks, w_windows,
             winCaller>>
upVars == <<u_pc, u_files, u_name, u_fd, u_docs, u_results, u_ret, u_returned,
           u_calls>>
svcVars == <<getVars, winVars, upVars>>
fnVars == <<mmrVars, judgeVars, svcVars>>

vars == <<chunkVars, storeVars, askVars, fnVars>>

\* ------------------------------------------------------------------ helpers
Min(a, b) == IF a < b THEN a ELSE b
Max(a, b) == IF a > b THEN a ELSE b

SP == 32
NL == 10

\* Characters str.isspace() accepts: str.strip() removes them at both ends.
Whitespace ==
    {9, 10, 11, 12, 13, 28, 29, 30, 31, 32, 133, 160, 5760} \cup (8192..8202)
    \cup {8232, 8233, 8239, 8287, 12288}

\* The no-break space U+00A0, a whitespace character outside ASCII.
NBSP == 160

\* Python slice t[a:b] for 0 <= a <= b <= len(t).
Slice(t, a, b) == SubSeq(t, a + 1, b)

\* str.strip(): drop leading and trailing whitespace.
LStrip(t) ==
    LET first == CHOOSE i \in 1..(Len(t) + 1) :
                     /\ i = Len(t) + 1 \/ t[i] \notin Whitespace
                     /\ \A j \in 1..(i - 1) : t[j] \in Whitespace
    IN  SubSeq(t, first, Len(t))

RStrip(t) ==
    LET last == CHOOSE i \in 0..Len(t) :
                    /\ i = 0 \/ t[i] \notin Whitespace
                    /\ i = Len(t) \/ t[i + 1] \in Whitespace
                    /\ \A j \in (i + 1)..Len(t) : t[j] \in Whitespace
    IN  SubSeq(t, 1, last)

Strip(t) == RStrip(LStrip(t))

\* ------------------------------------------------------------------ chunker
\* rag_service.py:29 default arguments of _chunk_pages
DEFAULT_MAX_CHARS == 1800
DEFAULT_OVERLAP == 200

\* rag_service.py:38  end = min(L, start + max_chars)
WindowEndOffByOne(L, start, mc) == Min(L, start + mc + 1)
WindowEnd(L, start, mc) == Min(L, start + mc)

\* rag_service.py:42  start = max(0, end - overlap)
NextStartNoOverlap(end, ov) == end
NextStart(end, ov) == Max(0, end - ov)

\* rag_service.py:39  the page tag i + 1 of enumerate index i
PageTagZeroBased(i) == i
PageTag(i) == i + 1

\* rag_service.py:35-42  the while loop over one stripped page of length L,
\* as the sequence of (start, end) windows it appends.
RECURSIVE ChunkWindows(_, _, _, _)
ChunkWindows(L, start, mc, ov) ==
    IF ~(start < L) THEN <<>>
    ELSE LET end == WindowEnd(L, start, mc)
         IN  <<[start |-> start, end |-> end]>>
             \o (IF end = L THEN <<>>
                 ELSE ChunkWindows(L, NextStart(end, ov), mc, ov))

\* rag_service.py:31-42  chunks of page number i (0-based enumerate index)
PageChunks(i, txt, mc, ov) ==
    LET t == Strip(txt)
        w == IF t = <<>> THEN <<>> ELSE ChunkWindows(Len(t), 0, mc, ov)
    IN  [n \in 1..Len(w) |->
            [page |-> PageTag(i), text |-> Slice(t, w[n].start, w[n].end)]]

\* rag_service.py:29-43
RECURSIVE ChunkFrom(_, _, _, _)
ChunkFrom(pages, i, mc, ov) ==
    IF i >= Len(pages) THEN <<>>
    ELSE PageChunks(i, pages[i + 1], mc, ov) \o ChunkFrom(pages, i + 1, mc, ov)

_chunk_pages(pages, mc, ov) == ChunkFrom(pages, 0, mc, ov)

\* ------------------------------------------------------------------ bounded inputs
MaxPageLen == 3
MaxPages == 2
MaxWindow == 3

Alphabet == {SP, NBSP, 97, 98}

RECURSIVE StringsOfLen(_)
StringsOfLen(n) ==
    IF n = 0 THEN {<<>>}
    ELSE {<<c>> \o s : c \in Alphabet, s \in StringsOfLen(n - 1)}

Strings == UNION {StringsOfLen(n) : n \in 0..MaxPageLen}

\* Pages that surround the freely chosen page of a document.
FillerPages == {<<>>, <<NBSP>>, <<97, SP, 98>>}

\* Documents of up to MaxPages pages: one page is any string, the others
\* are filler pages.
Documents ==
    {<<>>} \cup
    UNION {{[i \in 1..n |-> IF i = p THEN s ELSE f[i]] :
                p \in 1..n, s \in Strings, f \in [1..n -> FillerPages]}
           : n \in 1..MaxPages}

\* The spec's end-to-end scenario: page 1 of 4000 characters, page 2 blank.
LongPage == [i \in 1..4000 |-> 97 + (i % 26)]
ScenarioDoc == <<LongPage, <<SP>>>>

ChunkInputs ==
    {[pages |-> d, mc |-> m, ov |-> o] :
        d \in Documents, m \in 1..MaxWindow, o \in 0..(MaxWindow - 1)}
    \cup {[pages |-> ScenarioDoc, mc |-> DEFAULT_MAX_CHARS, ov |-> DEFAULT_OVERLAP],
          [pages |-> <<<<97, 98>>, LongPage>>,
           mc |-> DEFAULT_MAX_CHARS, ov |-> DEFAULT_OVERLAP]}

\* ------------------------------------------------------------------ index store
DocIds == {"d1", "d2"}
Builders == {"t1", "t2"}

\* File states of VEC_DIR/<doc_id>.json besides a JSON document.
NoFile == [kind |-> "absent"]
EmptyFile == [kind |-> "truncated"]

\* rag_service.py:79, 88  the object handed to json.dumps
IndexDoc(texts, pages_arr, vecs) ==
    [kind |-> "json", texts |-> texts, pages |-> pages_arr, embeddings |-> vecs]

\* rag_service.py:96  the index returned for a missing file
EmptyIndex == IndexDoc(<<>>, <<>>, <<>>)

\* Path.write_text opens the file with mode "w": the old content is dropped.
OpenKeepsContent(content) == content
OpenForWrite(content) == EmptyFile

\* Writing data at offset 0 of a file that holds `content`: whatever lies
\* beyond the written data stays.
TailFrom(seq, n) == SubSeq(seq, n + 1, Len(seq))
Overlay(content, data) ==
    IF content.kind # "json" THEN data
    ELSE IndexDoc(data.texts \o TailFrom(content.texts, Len(data.texts)),
                  data.pages \o TailFrom(content.pages, Len(data.pages)),
                  data.embeddings
                      \o TailFrom(content.embeddings, Len(data.embeddings)))

\* rag_service.py:79, 87-90  _index_path(doc_id).write_text(json.dumps(...))
write_text_if_absent(fs, d, data) ==
    IF fs[d].kind = "absent" THEN [fs EXCEPT ![d] = data] ELSE fs
write_text(fs, d, data) ==
    [fs EXCEPT ![d] = Overlay(OpenForWrite(fs[d]), data)]

\* rag_service.py:93-97  json.loads of a truncated file raises
LoadError == [kind |-> "JSONDecodeError"]
_load_index_strict(fs, d) ==
    IF fs[d].kind = "json" THEN fs[d] ELSE LoadError
_load_index(fs, d) ==
    IF fs[d] = NoFile THEN EmptyIndex
    ELSE IF fs[d].kind = "json" THEN fs[d]
    ELSE LoadError

\* pdf_service.py:66-74  the entry of a document in the registry: the name
\* the client gave, the file name registered for it, the overview
Meta(name, file, overview) == [name |-> name, file |-> file, overview |-> overview]

\* pdf_service.py:88-94  the path of the registered file, below STORAGE_DIR;
\* None for an id the registry does not hold
NoPath == <<>>
get_document_path(reg, d) == IF d \in DOMAIN reg THEN reg[d].file ELSE NoPath

\* os.path.exists(pdf) for a path below STORAGE_DIR
path_exists(disk, pdf) == pdf \in disk

\* rag_service.py:62-64  pdf = get_document_path(doc_id);
\* if not pdf or not os.path.exists(pdf): return no_pdf
NoPdf(reg, disk, d) ==
    LET pdf == get_document_path(reg, d)
    IN  pdf = NoPath \/ ~path_exists(disk, pdf)

\* ollama_service.py:121  prompt = (t or "").strip()
IsBlankPrompt(t) == Strip(t) = <<>>

\* ollama_service.py:122-124  a blank prompt gets the empty vector, without
\* a request to the provider
BlankSkipped == <<>>
BlankEmbedding == <<<<>>>>

\* ollama_service.py:120-124  run the loop from item i (0-based) up to the
\* next provider request or to the end of texts
RECURSIVE AdvanceBlank(_, _, _)
AdvanceBlank(texts, i, out) ==
    IF i < Len(texts) /\ IsBlankPrompt(texts[i + 1])
    THEN AdvanceBlank(texts, i + 1, out \o BlankEmbedding)
    ELSE [idx |-> i, out |-> out]

\* rag_service.py:85-90  the file system after a step of the embedding loop:
\* the index is written once, after ollama_embed has returned every vector.
DiskAfterStepEager(fs, d, texts, pages_arr, out, finished) ==
    write_text(fs, d, IndexDoc(texts, pages_arr, out))
DiskAfterStep(fs, d, texts, pages_arr, out, finished) ==
    IF finished THEN write_text(fs, d, IndexDoc(texts, pages_arr, out)) ELSE fs

\* Page texts PdfReader may extract from a stored PDF.
GapPage == [i \in 1..3401 |-> IF i = 1 THEN 97 ELSE IF i = 3401 THEN 98 ELSE SP]
ExtractedPages == {<<>>, <<<<SP>>>>, <<<<97, 98>>>>, <<<<SP>>, GapPage>>}

\* rag_service.py:77  chunks = _chunk_pages(pages), for each of them
ExtractedChunks ==
    [pg \in ExtractedPages |->
        _chunk_pages(pg, DEFAULT_MAX_CHARS, DEFAULT_OVERLAP)]

\* Vectors the embedding provider may answer with; the empty one is the
\* "no embedding received" reply.
ProviderVecs == {<<5, 0>>, <<3, 4>>}
ProviderReplies ==
    {[kind |-> "vec", vec |-> v] : v \in ProviderVecs \cup {<<>>}}
    \cup {[kind |-> "error", vec |-> <<>>]}

NoLoad == [doc |-> "none", idx |-> EmptyIndex, during |-> {}]

\* Outcome of a call: rag_service.py:64, 80, 91 (the returned dict) or
\* ollama_service.py:141 (the error raised "at item idx").
NoItem == -1
Ret(state, n, item) == [state |-> state, chunks |-> n, item |-> item]

\* No build of the document has returned yet.
NeverBuilt == [kind |-> "none"]

Active(d) == {b \in Builders : bpc[b] # "idle" /\ bdoc[b] = d}

\* A page without text: extract_text() gave nothing but whitespace
\* (rag_service.py:66-75 turns a failed extraction into the empty string).
IsBlankPage(txt) == \A n \in 1..Len(txt) : txt[n] \in Whitespace
NoText(pg) == \A p \in 1..Len(pg) : IsBlankPage(pg[p])

\* History of a call of index_document: blank, the pages it read had no
\* text; embed, it called ollama_embed.
NoCall == [blank |-> FALSE, embed |-> FALSE]

\* The document "d1" was uploaded as "a": its entry and its file d1__a.
DocFile == <<100, 49, 95, 95, 97>>
DocMeta == Meta(<<97>>, DocFile, <<>>)

\* What STORAGE_DIR may hold for a registered document: its file, or no
\* file at the registered path (the upload stored it under the name
\* safe_filename gave, or the file was removed).
Storages == {{DocFile}, {}}

InitStoreWith(disk) ==
    /\ registry = [d \in {"d1"} |-> DocMeta]
    /\ storage = disk
    /\ vecfile = [d \in DocIds |-> NoFile]
    /\ bpc = [b \in Builders |-> "idle"]
    /\ bdoc = [b \in Builders |-> "d1"]
    /\ btexts = [b \in Builders |-> <<>>]
    /\ bpages = [b \in Builders |-> <<>>]
    /\ bidx = [b \in Builders |-> 0]
    /\ bout = [b \in Builders |-> <<>>]
    /\ bret = [b \in Builders |-> Ret("none", 0, NoItem)]
    /\ loaded = NoLoad
    /\ committed = [d \in DocIds |-> NeverBuilt]
    /\ bwrote = [b \in Builders |-> FALSE]
    /\ bconc = [b \in Builders |-> FALSE]
    /\ bhist = [b \in Builders |-> NoCall]

InitStore == InitStoreWith({DocFile})

\* The call of task b returns or raises: its locals are dropped.
Finish(b, state, n, item) ==
    /\ bpc' = [bpc EXCEPT ![b] = "idle"]
    /\ bret' = [bret EXCEPT ![b] = Ret(state, n, item)]
    /\ btexts' = [btexts EXCEPT ![b] = <<>>]
    /\ bpages' = [bpages EXCEPT ![b] = <<>>]
    /\ bidx' = [bidx EXCEPT ![b] = 0]
    /\ bout' = [bout EXCEPT ![b] = <<>>]

\* rag_service.py:61-85  index_document up to its first await
BuildStart(b, d, pg) ==
    /\ bpc[b] = "idle"
    /\ bdoc' = [bdoc EXCEPT ![b] = d]
    /\ UNCHANGED <<registry, storage>>
    /\ IF NoPdf(registry, storage, d)
       THEN /\ Finish(b, "no_pdf", 0, NoItem)
            /\ bwrote' = [bwrote EXCEPT ![b] = FALSE]
            /\ bconc' = [bconc EXCEPT ![b] = FALSE]
            /\ bhist' = [bhist EXCEPT ![b] = NoCall]
            /\ UNCHANGED <<vecfile, committed>>
       ELSE LET cs == ExtractedChunks[pg]
            IN  IF cs = <<>>
                THEN /\ vecfile' = write_text(vecfile, d, EmptyIndex)
                     /\ committed' = [committed EXCEPT ![d] = EmptyIndex]
                     /\ Finish(b, "ok", 0, NoItem)
                     /\ bwrote' = [bwrote EXCEPT ![b] = vecfile' # vecfile]
                     /\ bconc' = [bconc EXCEPT ![b] = FALSE]
                     /\ bhist' = [bhist EXCEPT
                                    ![b] = [blank |-> NoText(pg), embed |-> FALSE]]
                ELSE /\ btexts' = [btexts EXCEPT ![b] = [n \in 1..Len(cs) |-> cs[n].text]]
                     /\ bpages' = [bpages EXCEPT ![b] = [n \in 1..Len(cs) |-> cs[n].page]]
                     /\ bidx' = [bidx EXCEPT ![b] = 0]
                     /\ bout' = [bout EXCEPT ![b] = <<>>]
                     /\ bpc' = [bpc EXCEPT ![b] = "ensure"]
                     /\ bret' = [bret EXCEPT ![b] = Ret("running", 0, NoItem)]
                     /\ bwrote' = [bwrote EXCEPT ![b] = FALSE]
                     /\ bconc' = [c \in Builders |->
                                    IF c = b THEN Active(d) # {}
                                    ELSE bconc[c] \/ c \in Active(d)]
                     /\ bhist' = [bhist EXCEPT
                                    ![b] = [blank |-> NoText(pg), embed |-> TRUE]]
                     /\ UNCHANGED <<vecfile, committed>>
    /\ loaded' = NoLoad

\* One step of the embedding loop of task b that leaves the loop at item
\* st.idx with st.out gathered so far: ollama_embed awaits the next reply, or
\* returns and index_document writes the index and returns.
EmbedProgress(b, st) ==
    LET d == bdoc[b]
        finished == st.idx = Len(btexts[b])
    IN  /\ vecfile' = DiskAfterStep(vecfile, d, btexts[b], bpages[b], st.out, finished)
        /\ bwrote' = [bwrote EXCEPT ![b] = bwrote[b] \/ vecfile' # vecfile]
        /\ IF finished
           THEN /\ committed' = [committed EXCEPT
                                    ![d] = IndexDoc(btexts[b], bpages[b], st.out)]
                /\ Finish(b, "ok", Len(btexts[b]), NoItem)
           ELSE /\ bidx' = [bidx EXCEPT ![b] = st.idx]
                /\ bout' = [bout EXCEPT ![b] = st.out]
                /\ bpc' = [bpc EXCEPT ![b] = "embed"]
                /\ UNCHANGED <<committed, bret, btexts, bpages>>

\* rag_service.py:85  the error of ollama_embed propagates out of
\* index_document: the statements after the await do not run.
EmbedRaisePersist(b, item) ==
    /\ Finish(b, "raised", 0, item)
    /\ vecfile' = write_text(vecfile, bdoc[b],
                             IndexDoc(btexts[b], bpages[b], bout[b]))
    /\ bwrote' = [bwrote EXCEPT ![b] = bwrote[b] \/ vecfile' # vecfile]
    /\ UNCHANGED committed
EmbedRaise(b, item) ==
    /\ Finish(b, "raised", 0, item)
    /\ UNCHANGED <<vecfile, committed, bwrote>>

\* ollama_service.py:113  await _ensure_models() returns or raises
EnsureModels(b, ok) ==
    /\ bpc[b] = "ensure"
    /\ UNCHANGED <<registry, storage, bdoc, bconc, bhist>>
    /\ IF ok
       THEN EmbedProgress(b, AdvanceBlank(btexts[b], 0, <<>>))
       ELSE EmbedRaise(b, NoItem)
    /\ loaded' = NoLoad

\* ollama_service.py:125-141  the provider answers the request for item idx
EmbedReply(b, reply) ==
    /\ bpc[b] = "embed"
    /\ UNCHANGED <<registry, storage, bdoc, bconc, bhist>>
    /\ IF reply.kind = "vec" /\ reply.vec # <<>>
       THEN EmbedProgress(b, AdvanceBlank(btexts[b], bidx[b] + 1,
                                          Append(bout[b], reply.vec)))
       ELSE EmbedRaise(b, bidx[b])
    /\ loaded' = NoLoad

\* rag_service.py:93-97  a query loads the index of document d
Load(d) ==
    /\ loaded' = [doc |-> d, idx |-> _load_index(vecfile, d),
                  during |-> Active(d)]
    /\ UNCHANGED <<registry, storage, vecfile, bpc, bdoc, btexts, bpages, bidx, bout,
                   bret, committed, bwrote, bconc, bhist>>

NoHistory == [file |-> NoFile, embeds |-> 0, chat |-> "none"]

NoRequest ==
    [doc_id |-> "none", k |-> 0, strategy |-> "none", mmr_lambda |-> 0,
     use_llm_rerank |-> FALSE]

InitAskIdle ==
    /\ a_pc = "idle"
    /\ a_req = NoRequest
    /\ a_idx = EmptyIndex
    /\ a_qv = <<>>
    /\ a_sims = <<>>
    /\ a_cos = <<>>
    /\ a_cand = <<>>
    /\ a_top = <<>>
    /\ a_ctx = <<>>
    /\ a_out = "none"
    /\ a_hist = NoHistory

InitMmrIdle ==
    /\ m_pc = "idle"
    /\ m_E = <<>>
    /\ m_qv = <<0, 0>>
    /\ m_k = 1
    /\ m_lam = 0
    /\ m_sel = <<>>

InitJudgeIdle ==
    /\ j_pc = "idle"
    /\ j_n = 0
    /\ j_k = 1
    /\ j_reply = [kind |-> "none"]
    /\ j_out = <<>>

NoOutcome == [kind |-> "none", error |-> "none"]

InitGetIdle ==
    /\ g_pc = "idle"
    /\ g_retries = 0
    /\ g_backoff = 1
    /\ g_i = 0
    /\ g_out = NoOutcome
    /\ g_log = <<>>
    /\ g_waits = <<>>

\* No call has returned yet: a list no call returns (pages count from 1 and
\* a chunk has text).
NoResult == <<[page |-> 0, text |-> <<>>]>>

InitWinIdle ==
    /\ w_pc = "idle"
    /\ w_call = "first"
    /\ w_arg = [pages |-> <<>>, mc |-> DEFAULT_MAX_CHARS, ov |-> DEFAULT_OVERLAP]
    /\ w_first = NoResult
    /\ w_mid = NoResult
    /\ w_pages = <<>>
    /\ w_mc = DEFAULT_MAX_CHARS
    /\ w_ov = DEFAULT_OVERLAP
    /\ w_i = 0
    /\ w_t = <<>>
    /\ w_start = 0
    /\ w_chunks = <<>>
    /\ w_windows = <<>>

UploadTasks == {"u1", "u2"}

\* pdf_service.py:22  {"docs": {}}
NoDocs == [d \in {} |-> <<>>]

\* The call has not returned.
NotReturned == [kind |-> "none", docs |-> <<>>]

InitUpIdle ==
    /\ u_pc = [u \in UploadTasks |-> "idle"]
    /\ u_files = [u \in UploadTasks |-> <<>>]
    /\ u_name = [u \in UploadTasks |-> <<>>]
    /\ u_fd = [u \in UploadTasks |-> "none"]
    /\ u_docs = [u \in UploadTasks |-> NoDocs]
    /\ u_results = [u \in UploadTasks |-> <<>>]
    /\ u_ret = [u \in UploadTasks |-> NotReturned]
    /\ u_returned = {}
    /\ u_calls = {}

InitSvcIdle == InitGetIdle /\ InitWinIdle /\ InitUpIdle

InitFnIdle == InitMmrIdle /\ InitJudgeIdle /\ InitSvcIdle

InitChunkIdle ==
    /\ pages_in = <<>>
    /\ max_chars = DEFAULT_MAX_CHARS
    /\ overlap = DEFAULT_OVERLAP
    /\ chunks = <<>>
    /\ chunk_pc = "idle"

Init ==
    /\ \E disk \in Storages : InitStoreWith(disk)
    /\ InitChunkIdle
    /\ InitAskIdle
    /\ InitFnIdle

Next ==
    \/ \E b \in Builders, d \in DocIds, pg \in ExtractedPages :
          BuildStart(b, d, pg) /\ UNCHANGED <<chunkVars, askVars, fnVars>>
    \/ \E b \in Builders, ok \in BOOLEAN :
          EnsureModels(b, ok) /\ UNCHANGED <<chunkVars, askVars, fnVars>>
    \/ \E b \in Builders, reply \in ProviderReplies :
          EmbedReply(b, reply) /\ UNCHANGED <<chunkVars, askVars, fnVars>>
    \/ \E d \in DocIds : Load(d) /\ UNCHANGED <<chunkVars, askVars, fnVars>>

Spec == Init /\ [][Next]_vars

\* ------------------------------------------------------------------ index store claims
WellFormed(idx) ==
    /\ idx.kind = "json"
    /\ Len(idx.texts) = Len(idx.pages)
    /\ Len(idx.pages) = Len(idx.embeddings)

\* What the last build that returned left to be loaded for document d.
Persisted(d) == IF committed[d] = NeverBuilt THEN EmptyIndex ELSE committed[d]

\* C1: after any sequence of index_document calls (successful, without
\* text, aborted by a provider failure) every index file that exists holds
\* three arrays texts, pages, embeddings of equal length.
C1_ParallelArrays ==
    \A d \in DocIds : vecfile[d] # NoFile => WellFormed(vecfile[d])

\* A three-chunk index (its middle chunk is blank) is on disk and a build
\* has been aborted by the provider.
C1_Witness ==
    /\ vecfile["d1"] # NoFile
    /\ Len(vecfile["d1"].texts) = 3
    /\ \E b \in Builders : bret[b].state = "raised" /\ bret[b].item = 2

\* C2: a load that runs while an index_document call for the same document
\* is in progress returns a complete index: the one persisted before the
\* build (the empty index if there was none), never a half-written one.
C2_LoadDuringBuild ==
    (loaded.doc \in DocIds /\ loaded.during # {}) =>
        /\ WellFormed(loaded.idx)
        /\ loaded.idx = Persisted(loaded.doc)

\* A load of a document that has an index, made while a build of other
\* page texts has already received a vector for it.
C2_Witness ==
    /\ loaded.doc = "d1"
    /\ loaded.idx.texts # <<>>
    /\ \E b \in loaded.during :
          /\ bpc[b] = "embed" /\ bout[b] # <<>>
          /\ btexts[b] # loaded.idx.texts

\* C3: a call of index_document that ends with a failure of the embedding
\* provider has written nothing: no step of it changed an index file.
C3_FailureWritesNothing ==
    \A b \in Builders : bret[b].state = "raised" => ~bwrote[b]

\* A call failed at its third chunk, after two vectors, while the document
\* had an index from an earlier build.
C3_Witness ==
    \E b \in Builders :
        /\ bret[b].state = "raised" /\ bret[b].item = 2
        /\ bdoc[b] = "d1"
        /\ vecfile["d1"] # NoFile
        /\ Len(vecfile["d1"].texts) = 1

\* C4: once index_document has returned successfully for a document, a load
\* of that document returns exactly the texts, pages and embeddings of the
\* last build that returned, and nothing of an earlier index.
C4_LoadAfterBuild ==
    (loaded.doc \in DocIds /\ committed[loaded.doc] # NeverBuilt) =>
        loaded.idx = committed[loaded.doc]

\* A load returns a one-chunk index after a three-chunk build and then a
\* one-chunk build of the same document have returned.
C4_Witness ==
    /\ loaded.doc = "d1"
    /\ loaded.during = {}
    /\ Len(loaded.idx.texts) = 1
    /\ \E b \in Builders :
          bdoc[b] = "d1" /\ bret[b].state = "ok" /\ bret[b].chunks = 3

\* C5: when two index_document calls for one document have run concurrently
\* and both have finished, the persisted index is the complete result of the
\* call that wrote last, and its three arrays have equal length.
C5_LastWriterWins ==
    \A b1, b2 \in Builders :
        (/\ b1 # b2
         /\ bpc[b1] = "idle" /\ bpc[b2] = "idle"
         /\ bconc[b1] /\ bconc[b2]
         /\ bdoc[b1] = bdoc[b2]
         /\ bret[b1].state = "ok" /\ bret[b2].state = "ok")
        => /\ vecfile[bdoc[b1]] = committed[bdoc[b1]]
           /\ WellFormed(vecfile[bdoc[b1]])

\* Two overlapping calls for d1 have returned, one with three chunks and
\* one with one chunk, and the one-chunk call wrote last.
C5_Witness ==
    /\ \A b \in Builders :
          bpc[b] = "idle" /\ bconc[b] /\ bdoc[b] = "d1" /\ bret[b].state = "ok"
    /\ \E b \in Builders : bret[b].chunks = 3
    /\ \E b \in Builders : bret[b].chunks = 1
    /\ Len(vecfile["d1"].texts) = 1

\* C19: in every index persisted by index_document all embedding vectors
\* have the same length, whatever the pages, the provider answering with
\* vectors of one fixed dimension.
C19_OneDimension ==
    \A d \in DocIds :
        vecfile[d].kind = "json" =>
            \A i, j \in 1..Len(vecfile[d].embeddings) :
                Len(vecfile[d].embeddings[i]) = Len(vecfile[d].embeddings[j])

\* A build that returned ok persisted three chunks whose middle one, being
\* whitespace only, has the empty vector between two provider vectors.
C19_Witness ==
    /\ \E b \in Builders : bpc[b] = "idle" /\ bdoc[b] = "d1" /\ bret[b] = Ret("ok", 3, NoItem)
    /\ vecfile["d1"] # NoFile
    /\ Len(vecfile["d1"].embeddings) = 3
    /\ Len(vecfile["d1"].embeddings[1]) = 2
    /\ vecfile["d1"].embeddings[2] = <<>>
    /\ Len(vecfile["d1"].embeddings[3]) = 2
    /\ Strip(vecfile["d1"].texts[2]) = <<>>

\* ------------------------------------------------------------------ similarity ranking
\* Vectors are pairs of integers whose norm is an integer; a unit vector is
\* held in fixed point, as its components times Scale, so that a dot product
\* of two unit vectors (a cosine) is an integer in -Scale^2 .. Scale^2.
\* The code holds these numbers as float32 and the scores built from them
\* as floats: values that differ here differ there by far more than the
\* rounding, and keep their order; values that are equal here were computed
\* from equal rows, and are equal floats, or from different rows, and are
\* floats that may differ in the last place, either way.  The 1e-9 of the
\* denominators is left out.
Scale == 65
MaxNorm == 130

Dot(a, b) == a[1] * b[1] + a[2] * b[2]

\* A numpy array or Python list built from a comprehension: its values are
\* computed once, when it is built.
Array(f) == SubSeq(f, 1, Len(f))

\* np.linalg.norm of one row
Norm(v) == CHOOSE n \in 0..MaxNorm : n * n = Dot(v, v)

\* rag_service.py:45-47, 314  v / (norm + 1e-9): a zero row stays zero
Unit(v) ==
    IF Norm(v) = 0 THEN <<0, 0>>
    ELSE <<(v[1] * Scale) \div Norm(v), (v[2] * Scale) \div Norm(v)>>

\* rag_service.py:45-47  _norm(mat), row by row
_norm(mat) == Array([n \in 1..Len(mat) |-> Unit(mat[n])])

\* rag_service.py:320, 111  E @ qv
MatVec(E, qv) == Array([n \in 1..Len(E) |-> Dot(E[n], qv)])

\* rag_service.py:321  the sort key -sims
SortKeyAscending(sims) == sims
SortKey(sims) == Array([n \in 1..Len(sims) |-> 0 - sims[n]])

\* np.argsort(keys) with the default kind (quicksort, not stable): every
\* order of the 0-based indices along which the keys do not decrease.
RECURSIVE OrdersOf(_, _)
OrdersOf(S, keys) ==
    IF S = {} THEN {<<>>}
    ELSE LET least == {i \in S : \A j \in S : keys[i + 1] <= keys[j + 1]}
         IN  UNION {{<<i>> \o r : r \in OrdersOf(S \ {i}, keys)} : i \in least}

argsort(keys) == OrdersOf(0..(Len(keys) - 1), keys)

\* Python slice seq[:n]
Take(seq, n) == SubSeq(seq, 1, Min(n, Len(seq)))

\* rag_service.py:317  k = max(1, min(int(k), len(texts)))
ClampK(k, n) == Max(1, Min(k, n))

\* rag_service.py:318  cand_n = min(max(12, 3 * k), len(texts))
CandNTwelve(k, n) == Min(12, n)
CandN(k, n) == Min(Max(12, 3 * k), n)

\* ------------------------------------------------------------------ MMR
\* mmr_lambda is held in tenths.
LamDen == 10

\* The indices of S a scan for the largest float may end on, when the
\* values of S are equal in exact arithmetic: rows that are equal give
\* equal floats, of which the scan keeps the first (line 126 replaces best
\* on a strictly larger score only); between different rows the rounding
\* decides.
FirstOfEqualRows(E, S) == {j \in S : \A q \in S : q < j => E[q + 1] # E[j + 1]}

\* rag_service.py:115  np.argmax(E @ qv): the first index of the largest
\* float (0-based); every index it may be
argmax(E, sims) ==
    FirstOfEqualRows(E, {i \in 0..(Len(sims) - 1) :
                            \A j \in 0..(Len(sims) - 1) : sims[j + 1] <= sims[i + 1]})

\* rag_service.py:124  div = max(float(E[j] @ E[s]) for s in selected)
MaxDiv(E, j, selected) ==
    LET ds == {Dot(E[j + 1], E[selected[n] + 1]) : n \in 1..Len(selected)}
    IN  CHOOSE d \in ds : \A e \in ds : e <= d

\* rag_service.py:125  score = lam * sims[j] - (1 - lam) * div, times LamDen
MmrScoreSwapped(E, sims, j, selected, lam) ==
    (LamDen - lam) * sims[j + 1] - lam * MaxDiv(E, j, selected)
MmrScore(E, sims, j, selected, lam) ==
    lam * sims[j + 1] - (LamDen - lam) * MaxDiv(E, j, selected)

\* The candidates of the largest score in exact arithmetic: each score is
\* computed once.
MmrTop(E, sims, selected, candidates, lam) ==
    LET scored == {<<MmrScore(E, sims, j, selected, lam), j>> : j \in candidates}
    IN  {p[2] : p \in {x \in scored : \A q \in scored : q[1] <= x[1]}}

\* rag_service.py:120-128  the scan of the candidates, in ascending order
\* (the order in which a set of small integers is iterated), keeping the
\* first candidate of the largest float score; every candidate it may be
MmrBestLastWins(E, sims, selected, candidates, lam) ==
    LET S == MmrTop(E, sims, selected, candidates, lam)
    IN  {j \in S : \A q \in S : q > j => E[q + 1] # E[j + 1]}
MmrBest(E, sims, selected, candidates, lam) ==
    FirstOfEqualRows(E, MmrTop(E, sims, selected, candidates, lam))

\* The one member of a set of one value.
TheOne(S) == CHOOSE x \in S : TRUE

\* rag_service.py:120-130  one pass of the while loop: the best candidate
\* moves from candidates to selected; every state the pass may leave
MmrStepKeepsCandidate(E, sims, st, lam) ==
    {[selected |-> Append(st.selected, best),
      candidates |-> st.candidates] :
         best \in MmrBest(E, sims, st.selected, st.candidates, lam)}
MmrStep(E, sims, st, lam) ==
    {[selected |-> Append(st.selected, best),
      candidates |-> st.candidates \ {best}] :
         best \in MmrBest(E, sims, st.selected, st.candidates, lam)}

\* rag_service.py:118-130  while len(selected) < min(k, N) and candidates
RECURSIVE MmrLoop(_, _, _, _, _)
MmrLoop(E, sims, st, k, lam) ==
    IF Len(st.selected) < k /\ st.candidates # {}
    THEN UNION {MmrLoop(E, sims, nx, k, lam) : nx \in MmrStep(E, sims, st, lam)}
    ELSE {st.selected}

\* rag_service.py:110-117  selected and candidates before the loop
MmrFirst(E, sims) ==
    {[selected |-> <<i0>>, candidates |-> (0..(Len(E) - 1)) \ {i0}] :
        i0 \in argmax(E, sims)}

\* rag_service.py:100-131  every list the call may return
_mmr_indices(E, qv, k, lam) ==
    IF Len(E) = 0 THEN {<<>>}
    ELSE UNION {UNION {MmrLoop(mat, sims, st, kk, lam) : st \in MmrFirst(mat, sims)} :
                    mat \in {E}, sims \in {MatVec(E, qv)}, kk \in {Min(k, Len(E))}}

\* rag_service.py:100-131  sel is a list the call may return: the same
\* passes, followed along sel
MmrMayReturn(E, qv, k, lam, sel) ==
    \E mat \in {E}, sims \in {MatVec(E, qv)} :
        /\ Len(sel) = Min(k, Len(mat))
        /\ Len(sel) > 0 => sel[1] \in argmax(mat, sims)
        /\ \A t \in 1..(Len(sel) - 1) :
              sel[t + 1] \in MmrBest(mat, sims, SubSeq(sel, 1, t),
                                     (0..(Len(mat) - 1)) \ {sel[n] : n \in 1..t}, lam)

\* ------------------------------------------------------------------ relevance judge
\* What the chat provider does with the judge's request:
\*   [kind |-> "raise"]            ollama_chat raises
\*   [kind |-> "text"]             a response that is no JSON text and has
\*                                 no "{" ... "}" span
\*   [kind |-> "garbled"]          no JSON text, with a span that
\*                                 json.loads rejects
\*   [kind |-> "value", rank |-> v]    a JSON text whose value is not an
\*                                 object (an array, a number, a string),
\*                                 such as [{"rank": ...}]
\*   [kind |-> "object", rank |-> v]   a JSON text that is an object, or
\*                                 another text whose span parses to one,
\* where v is the value stored under "rank" of the object (for "value":
\* of the object inside the text):
\*   [t |-> "absent"]              no such key
\*   [t |-> "scalar"]              a value that is not an array
\*   [t |-> "array", items |-> s]  an array of JSON values, each an
\*                                 integer, a float, a string, true/false
\*                                 or null, as [t |-> type, v |-> number].
JInt(n) == [t |-> "int", v |-> n]
JTrue == [t |-> "bool", v |-> 1]
JFloat(n) == [t |-> "float", v |-> n]
JStr(n) == [t |-> "str", v |-> n]

\* rag_service.py:463-474  the _first_json_blob in effect (it replaces the
\* one of lines 49-58 when the module is loaded): json.loads of the whole
\* text, whatever value that gives; else json.loads of the span from the
\* first "{" to the last "}"; else {}
_first_json_blob(reply) ==
    IF reply.kind = "object" THEN [t |-> "dict", rank |-> reply.rank]
    ELSE IF reply.kind = "value" THEN [t |-> "value"]
    ELSE [t |-> "dict", rank |-> [t |-> "absent"]]

\* rag_service.py:164  data.get("rank", []) of a dict: [] without the key
RankOf(data) ==
    IF data.rank.t # "absent" THEN data.rank
    ELSE [t |-> "array", items |-> <<>>]

\* rag_service.py:167  isinstance(x, int): an int, or a bool (a subclass
\* of int in Python: json.loads gives True for true)
IsInstanceInt(x) == x.t \in {"int", "bool"}

\* rag_service.py:167  cand = [int(x) for x in rank if isinstance(x, int)
\* and 0 <= x < len(texts)]
RECURSIVE SanitizeFrom(_, _, _)
SanitizeFrom(items, i, n) ==
    IF i > Len(items) THEN <<>>
    ELSE IF IsInstanceInt(items[i]) /\ 0 <= items[i].v /\ items[i].v < n
         THEN <<items[i].v>> \o SanitizeFrom(items, i + 1, n)
         ELSE SanitizeFrom(items, i + 1, n)

\* rag_service.py:169-176  unique and cap: the loop over cand
RECURSIVE UniqueCap(_, _, _, _)
UniqueCap(cand, i, out, k) ==
    IF i > Len(cand) THEN out
    ELSE IF cand[i] \in {out[n] : n \in 1..Len(out)}
         THEN IF Len(out) >= k THEN out ELSE UniqueCap(cand, i + 1, out, k)
         ELSE IF Len(out) + 1 >= k THEN Append(out, cand[i])
              ELSE UniqueCap(cand, i + 1, Append(out, cand[i]), k)

\* rag_service.py:182  list(range(k))
Identity(k) == [i \in 1..k |-> i - 1]

\* rag_service.py:135-182  _llm_rerank(question, texts, k), n = len(texts):
\* every exception of the try block ends in the identity
\* (ollama_chat raising; data.get raising AttributeError on a value that
\* is no dict)
_llm_rerank(n, k, reply) ==
    LET kk == Max(1, Min(k, n))
        data == _first_json_blob(reply)
        rank == RankOf(data)
        out == UniqueCap(SanitizeFrom(rank.items, 1, n), 1, <<>>, kk)
    IN  IF reply.kind = "raise" THEN Identity(kk)
        ELSE IF data.t # "dict" THEN Identity(kk)
        ELSE IF rank.t = "array" /\ out # <<>> THEN out
        ELSE Identity(kk)

\* ------------------------------------------------------------------ answer_question
\* rag_service.py:338  one context item: the page tag and the stripped text
\* with its newlines replaced by spaces
ReplaceNL(t) == [n \in 1..Len(t) |-> IF t[n] = NL THEN SP ELSE t[n]]
CtxItem(idx, i) ==
    [page |-> idx.pages[i + 1], line |-> ReplaceNL(Strip(idx.texts[i + 1]))]

Strategies == {"cosine", "mmr"}
Lambdas == {0, 3, 10}

\* Embedding vectors of the bounded inputs: directions of the upper half
\* plane, some of them twice at different lengths (equal cosines).
VecPool ==
    <<<<-65, 0>>, <<12, 5>>, <<25, 60>>, <<-4, 3>>, <<-5, 12>>, <<16, 63>>,
      <<-25, 60>>, <<0, 65>>, <<3, 4>>, <<-63, 16>>, <<130, 0>>, <<33, 56>>,
      <<-56, 33>>, <<-16, 63>>, <<-33, 56>>, <<39, 52>>, <<4, 3>>, <<65, 0>>,
      <<-12, 5>>, <<-3, 4>>>>

QueryVecs == {<<1, 0>>, <<3, 4>>}

\* Chunks of the indexes a request runs against.
MaxChunks == 18

\* Requested k (AskRequest admits 1..25): below, at and above the k whose
\* 3 * k passes 12.
RequestedK == {1, 2, 5}

\* contract.py:47-53  the requests: mmr_lambda only matters to "mmr"
Requests ==
    {r \in [doc_id : DocIds, k : RequestedK, strategy : Strategies,
            mmr_lambda : Lambdas, use_llm_rerank : BOOLEAN] :
        r.strategy = "cosine" => r.mmr_lambda = 3}

\* What the chat provider does with the judge's request of a question.
AskJudgeReplies ==
    {[kind |-> "raise"], [kind |-> "text"],
     [kind |-> "value", rank |-> [t |-> "array", items |-> <<JInt(1), JInt(0)>>]],
     [kind |-> "object", rank |-> [t |-> "array", items |-> <<JInt(1), JInt(0)>>]],
     [kind |-> "object", rank |-> [t |-> "array", items |-> <<JTrue, JInt(0)>>]],
     [kind |-> "object",
      rank |-> [t |-> "array", items |-> <<JInt(2), JInt(2), JFloat(1), JInt(40)>>]]}

\* Page texts as the PDF reader extracts them: with a line feed inside;
\* with white space at both ends, two line feeds together and a carriage
\* return inside.
CR == 13
RankTexts == <<<<NBSP, 97, NL, 98, NBSP>>, <<SP, 98, NL, NL, 97, CR, 97, NL>>>>

\* rag_service.py:77-88  an index of n chunks, as a build of an n-page
\* document leaves it: the chunks _chunk_pages makes of the pages (one for
\* each page, its stripped text), chunk i with vector i of the pool.
RankIndex(n) ==
    LET cs == _chunk_pages([i \in 1..n |-> RankTexts[(i % 2) + 1]],
                           DEFAULT_MAX_CHARS, DEFAULT_OVERLAP)
    IN  IndexDoc([i \in 1..Len(cs) |-> cs[i].text],
                 [i \in 1..Len(cs) |-> cs[i].page],
                 [i \in 1..Len(cs) |-> VecPool[((i - 1) % Len(VecPool)) + 1]])

\* rag_service.py:312  np.array(embeds, dtype=np.float32) raises ValueError
\* on rows of different lengths
Ragged(embeds) == \E i, j \in 1..Len(embeds) : Len(embeds[i]) # Len(embeds[j])

\* rag_service.py:305  if not texts or not embeds
NoIndexedContentSkipped(texts, embeds) == FALSE
NoIndexedContent(texts, embeds) == texts = <<>> \/ embeds = <<>>

\* rag_service.py:300-313  load the index (json.loads raises on a truncated
\* file); without texts or embeddings go to the "no indexed content" chat;
\* else build E, which raises on ragged rows, and ask for the query vector.
AskStart(req) ==
    /\ a_pc = "idle"
    /\ a_req' = req
    /\ \E idx \in {_load_index(vecfile, req.doc_id)} :
          IF idx = LoadError
          THEN /\ a_idx' = EmptyIndex
               /\ a_pc' = "done"
               /\ a_out' = "raised"
          ELSE /\ a_idx' = idx
               /\ a_pc' = IF NoIndexedContent(idx.texts, idx.embeddings) THEN "chat"
                          ELSE IF Ragged(idx.embeddings) THEN "done"
                          ELSE "embed"
               /\ a_out' = IF a_pc' = "chat" THEN "no_index"
                           ELSE IF a_pc' = "done" THEN "raised"
                           ELSE "none"
    /\ a_hist' = [file |-> vecfile[req.doc_id],
                  embeds |-> IF a_pc' = "embed" THEN 1 ELSE 0,
                  chat |-> "none"]
    /\ UNCHANGED <<a_qv, a_sims, a_cos, a_cand, a_top, a_ctx>>

\* rag_service.py:328  cand = [list(np.argsort(-sims)[:cand_n])[i] for i in cand]
MapBackSkipped(top_n, sel) == sel
MapBack(top_n, sel) == Array([i \in 1..Len(sel) |-> top_n[sel[i] + 1]])

\* rag_service.py:312-338  the query vector arrives: rank, select, render.
\* Each local of the code is bound once, in the code's order.  With
\* use_llm_rerank the candidates go to the judge before top is taken.
AskRank(qraw, order) ==
    /\ a_pc = "embed"
    /\ \E E \in {_norm(a_idx.embeddings)}, qv \in {Unit(qraw)},
          k \in {ClampK(a_req.k, Len(a_idx.texts))} :
       \E sims \in {MatVec(E, qv)}, cand_n \in {CandN(k, Len(a_idx.texts))} :
       \E cos \in {Take(order, cand_n)} :
       \E sel \in (IF a_req.strategy = "mmr"
                   THEN _mmr_indices(Array([i \in 1..Len(cos) |-> E[cos[i] + 1]]),
                                     qv, cand_n, a_req.mmr_lambda)
                   ELSE {<<>>}) :
       \E cand \in {IF a_req.strategy = "mmr"
                    THEN MapBack(Take(order, cand_n), sel)
                    ELSE cos} :
       \E top \in {IF a_req.use_llm_rerank THEN <<>> ELSE Take(cand, k)} :
          /\ order \in argsort(SortKey(sims))
          /\ a_qv' = qraw
          /\ a_sims' = sims
          /\ a_cos' = cos
          /\ a_cand' = cand
          /\ a_top' = top
          /\ a_ctx' = [i \in 1..Len(top) |-> CtxItem(a_idx, top[i])]
          /\ a_pc' = IF a_req.use_llm_rerank THEN "rerank" ELSE "chat"
          /\ UNCHANGED <<a_req, a_idx, a_out, a_hist>>

\* rag_service.py:331-338  the judge's chat ends: reorder, select, render
AskRerank(reply) ==
    /\ a_pc = "rerank"
    /\ \E k \in {ClampK(a_req.k, Len(a_idx.texts))} :
       \E reranked_local \in {_llm_rerank(Len(a_cand), k, reply)} :
       \E cand \in {Array([i \in 1..Len(reranked_local) |->
                               a_cand[reranked_local[i] + 1]])} :
       \E top \in {Take(cand, k)} :
          /\ a_cand' = cand
          /\ a_top' = top
          /\ a_ctx' = [i \in 1..Len(top) |-> CtxItem(a_idx, top[i])]
          /\ a_pc' = "chat"
          /\ UNCHANGED <<a_req, a_idx, a_qv, a_sims, a_cos, a_out, a_hist>>

\* ollama_service.py:140-141  the request for the query vector fails
AskEmbedFails ==
    /\ a_pc = "embed"
    /\ a_pc' = "done"
    /\ a_out' = "raised"
    /\ UNCHANGED <<a_req, a_idx, a_qv, a_sims, a_cos, a_cand, a_top, a_ctx, a_hist>>

\* rag_service.py:307-310, 345-348  the chat provider answers or fails
AskChat(ok) ==
    /\ a_pc = "chat"
    /\ a_pc' = "done"
    /\ a_out' = IF ~ok THEN "raised"
                ELSE IF a_out = "no_index" THEN "no_index" ELSE "answer"
    /\ a_hist' = [a_hist EXCEPT !.chat = IF ok THEN "ok" ELSE "failed"]
    /\ UNCHANGED <<a_req, a_idx, a_qv, a_sims, a_cos, a_cand, a_top, a_ctx>>

InitRank ==
    /\ InitChunkIdle
    /\ InitAskIdle
    /\ InitFnIdle
    /\ \E n \in 0..MaxChunks :
          /\ registry = [d \in {"d1"} |-> DocMeta]
          /\ storage = {DocFile}
          /\ vecfile = [d \in DocIds |->
                          IF d = "d1" THEN RankIndex(n) ELSE NoFile]
          /\ committed = [d \in DocIds |->
                            IF d = "d1" THEN RankIndex(n) ELSE NeverBuilt]
    /\ bpc = [b \in Builders |-> "idle"]
    /\ bdoc = [b \in Builders |-> "d1"]
    /\ btexts = [b \in Builders |-> <<>>]
    /\ bpages = [b \in Builders |-> <<>>]
    /\ bidx = [b \in Builders |-> 0]
    /\ bout = [b \in Builders |-> <<>>]
    /\ bret = [b \in Builders |-> Ret("none", 0, NoItem)]
    /\ loaded = NoLoad
    /\ bwrote = [b \in Builders |-> FALSE]
    /\ bconc = [b \in Builders |-> FALSE]
    /\ bhist = [b \in Builders |-> NoCall]

NextRank ==
    \/ \E req \in Requests : AskStart(req) /\ UNCHANGED <<chunkVars, storeVars, fnVars>>
    \/ /\ a_pc = "embed"
       /\ \E q \in QueryVecs :
             \E order \in argsort(SortKey(MatVec(_norm(a_idx.embeddings), Unit(q)))) :
                 AskRank(q, order) /\ UNCHANGED <<chunkVars, storeVars, fnVars>>
    \/ AskEmbedFails /\ UNCHANGED <<chunkVars, storeVars, fnVars>>
    \/ \E reply \in AskJudgeReplies :
          AskRerank(reply) /\ UNCHANGED <<chunkVars, storeVars, fnVars>>
    \/ \E ok \in BOOLEAN : AskChat(ok) /\ UNCHANGED <<chunkVars, storeVars, fnVars>>

SpecRank == InitRank /\ [][NextRank]_vars

\* ------------------------------------------------------------------ builds and queries together
\* A background build (ingest starts one index_document task) runs while
\* answer_question serves one request; both are coroutines of the same
\* event loop and interleave at their awaits.
IngestTasks == {"t1"}
ServeRequests == {r \in Requests : r.k = 2 /\ r.strategy = "cosine"}

NextServe ==
    \/ \E b \in IngestTasks, d \in DocIds, pg \in ExtractedPages :
          BuildStart(b, d, pg) /\ UNCHANGED <<chunkVars, askVars, fnVars>>
    \/ \E b \in IngestTasks, ok \in BOOLEAN :
          EnsureModels(b, ok) /\ UNCHANGED <<chunkVars, askVars, fnVars>>
    \/ \E b \in IngestTasks, reply \in ProviderReplies :
          EmbedReply(b, reply) /\ UNCHANGED <<chunkVars, askVars, fnVars>>
    \/ \E req \in ServeRequests :
          AskStart(req) /\ UNCHANGED <<chunkVars, storeVars, fnVars>>
    \/ /\ a_pc = "embed"
       /\ \E q \in QueryVecs :
             \E order \in argsort(SortKey(MatVec(_norm(a_idx.embeddings), Unit(q)))) :
                 AskRank(q, order) /\ UNCHANGED <<chunkVars, storeVars, fnVars>>
    \/ AskEmbedFails /\ UNCHANGED <<chunkVars, storeVars, fnVars>>
    \/ \E reply \in AskJudgeReplies :
          AskRerank(reply) /\ UNCHANGED <<chunkVars, storeVars, fnVars>>
    \/ \E ok \in BOOLEAN : AskChat(ok) /\ UNCHANGED <<chunkVars, storeVars, fnVars>>

SpecServe == Init /\ [][NextServe]_vars

\* ------------------------------------------------------------------ build and query claims
\* The request went the "no indexed content" way: it asked for no embedding,
\* its only await is the chat with the no-index framing, and when that chat
\* answers the answer is what the request returns.
NoIndexPath ==
    /\ a_pc \in {"chat", "done"}
    /\ a_hist.embeds = 0
    /\ a_qv = <<>>
    /\ a_ctx = <<>>
    /\ a_pc = "chat" => a_out = "no_index"
    /\ a_pc = "done" => a_hist.chat \in {"ok", "failed"}
    /\ (a_pc = "done" /\ a_hist.chat = "ok") => a_out = "no_index"
    /\ a_out = "raised" => a_hist.chat = "failed"

\* C17: index_document for a document whose pages yield no text (no pages,
\* or only blank pages) persists an index of three empty arrays and reports
\* success without calling the embedding provider; an answer_question that
\* then loads this index returns the "no indexed content" response, not an
\* error (the chat provider answering).
C17_EmptyDocument ==
    /\ \A b \in IngestTasks :
          bhist[b].blank =>
              /\ bpc[b] = "idle"
              /\ bret[b] = Ret("ok", 0, NoItem)
              /\ ~bhist[b].embed
              /\ vecfile[bdoc[b]] = EmptyIndex
              /\ vecfile[bdoc[b]].texts = <<>>
              /\ vecfile[bdoc[b]].pages = <<>>
              /\ vecfile[bdoc[b]].embeddings = <<>>
    /\ (a_pc # "idle" /\ a_hist.file = EmptyIndex) => NoIndexPath

\* A build of blank pages has returned and a later request for the document
\* has been answered from the no-index framing.
C17_Witness ==
    /\ bhist["t1"].blank
    /\ bdoc["t1"] = "d1"
    /\ a_req.doc_id = "d1"
    /\ a_hist.file = EmptyIndex
    /\ a_pc = "done"
    /\ a_out = "no_index"

\* C18: _load_index for a document with no index file returns the empty
\* index and never fails, and an answer_question issued before a build has
\* written the file (never built, or a build still in progress) returns a
\* response generated from the "no indexed content" framing, provided the
\* chat provider answers, without calling the embedding provider.
C18_MissingIndex ==
    (a_pc # "idle" /\ a_hist.file = NoFile) =>
        /\ a_idx = EmptyIndex
        /\ NoIndexPath

\* A request issued while the build of the document was still embedding
\* found no file and has been answered from the no-index framing.
C18_Witness ==
    /\ a_req.doc_id = "d1"
    /\ a_hist.file = NoFile
    /\ a_pc = "done"
    /\ a_out = "no_index"
    /\ bpc["t1"] = "embed"
    /\ bdoc["t1"] = "d1"
    /\ vecfile["d1"] = NoFile

\* ------------------------------------------------------------------ ranking claims
\* The request has ranked: the query vector arrived and the locals are set.
Ranked == a_pc \in {"chat", "done"} /\ a_qv # <<>>

ElemsOf(seq) == {seq[i] : i \in 1..Len(seq)}

\* The length of a vector, 1 for the zero vector (whose cosine is 0).
LenOr1(v) == IF Dot(v, v) = 0 THEN 1 ELSE Norm(v)

\* sim(q, a) > sim(q, b) for the cosine similarity of the stored vectors,
\* cross-multiplied by the (positive) lengths
CosGreater(q, a, b) == Dot(q, a) * LenOr1(b) > Dot(q, b) * LenOr1(a)

\* C9: in the cosine candidate ordering a chunk of strictly higher cosine
\* similarity to the query stands before one of lower similarity, and no
\* chunk left out by the truncation has a strictly higher similarity than
\* a chunk kept; with strategy "cosine" (no rerank) the context is the k
\* highest-scoring chunks, in descending order of score, each rendered
\* with its own page.
C9_CosineRanking ==
    Ranked =>
        \E dots \in {Array([i \in 1..Len(a_idx.embeddings) |->
                               Dot(a_qv, a_idx.embeddings[i])])},
           lens \in {Array([i \in 1..Len(a_idx.embeddings) |->
                               LenOr1(a_idx.embeddings[i])])},
           all \in {0..(Len(a_idx.embeddings) - 1)} :
            \* sim(q, x) > sim(q, y), cross-multiplied as in CosGreater
            LET Gt(x, y) == dots[x + 1] * lens[y + 1] > dots[y + 1] * lens[x + 1]
            IN  /\ \A i, j \in 1..Len(a_cos) : Gt(a_cos[i], a_cos[j]) => i < j
                /\ \A x \in all \ ElemsOf(a_cos), y \in ElemsOf(a_cos) : ~Gt(x, y)
                /\ (a_req.strategy = "cosine" /\ ~a_req.use_llm_rerank) =>
                      /\ Len(a_top) = Min(a_req.k, Len(a_idx.embeddings))
                      /\ Cardinality(ElemsOf(a_top)) = Len(a_top)
                      /\ ElemsOf(a_top) \subseteq all
                      /\ \A i, j \in 1..Len(a_top) :
                            i < j => ~Gt(a_top[j], a_top[i])
                      /\ \A x \in all \ ElemsOf(a_top), y \in ElemsOf(a_top) :
                            ~Gt(x, y)
                      /\ Len(a_ctx) = Len(a_top)
                      /\ \A i \in 1..Len(a_top) :
                            a_ctx[i].page = a_idx.pages[a_top[i] + 1]

\* A "cosine" request for 5 chunks of an index of more chunks than the
\* candidate set takes, with a chunk left out that scores strictly lower
\* than one kept, and two chunks of the context of different scores.
C9_Witness ==
    /\ Ranked
    /\ a_req.strategy = "cosine"
    /\ ~a_req.use_llm_rerank
    /\ a_req.k = 5
    /\ Len(a_top) = 5
    /\ Len(a_cos) = 15
    /\ Len(a_idx.embeddings) > Len(a_cos)
    /\ \E x \in (0..(Len(a_idx.embeddings) - 1)) \ ElemsOf(a_cos) :
          CosGreater(a_qv, a_idx.embeddings[a_cos[15] + 1], a_idx.embeddings[x + 1])
    /\ CosGreater(a_qv, a_idx.embeddings[a_top[1] + 1],
                  a_idx.embeddings[a_top[5] + 1])

\* The request has applied MMR and a_cand is what the mapping gave (the
\* judge, if asked, has not reordered it yet).
MmrRanked ==
    /\ a_req.strategy = "mmr"
    /\ a_qv # <<>>
    /\ a_pc = "rerank" \/ (a_pc \in {"chat", "done"} /\ ~a_req.use_llm_rerank)

\* The place of x in seq (1-based), x being an element of seq.
PositionIn(seq, x) == CHOOSE p \in 1..Len(seq) : seq[p] = x

\* C22: with strategy "mmr", MMR runs over the rows of the cosine top-N
\* candidates and each position it returns is mapped back once,
\* absolute = cosine_top_N[position]; the candidate list is a permutation
\* of the cosine top-N subset (nothing outside it, no duplicates) and its
\* first element is a chunk of the highest cosine similarity.
C22_MmrMapsOnce ==
    MmrRanked =>
        \E E \in {_norm(a_idx.embeddings)}, all \in {0..(Len(a_idx.embeddings) - 1)} :
            /\ Len(a_cand) = Len(a_cos)
            /\ ElemsOf(a_cand) = ElemsOf(a_cos)
            /\ ElemsOf(a_cand) \subseteq all
            /\ Cardinality(ElemsOf(a_cand)) = Len(a_cand)
            /\ \E sel \in {Array([i \in 1..Len(a_cand) |->
                                     PositionIn(a_cos, a_cand[i]) - 1])} :
                  /\ \A i \in 1..Len(a_cand) : a_cand[i] = a_cos[sel[i] + 1]
                  /\ MmrMayReturn(Array([i \in 1..Len(a_cos) |-> E[a_cos[i] + 1]]),
                                  Unit(a_qv), Len(a_cos), a_req.mmr_lambda, sel)
            /\ \A x \in all :
                  ~CosGreater(a_qv, a_idx.embeddings[x + 1],
                              a_idx.embeddings[a_cand[1] + 1])

\* An "mmr" request on an index of more chunks than the candidate set
\* takes: MMR has reordered the cosine candidates, and a candidate is a
\* chunk index that is no position of the subset.
C22_Witness ==
    /\ MmrRanked
    /\ Len(a_idx.embeddings) > Len(a_cos)
    /\ Len(a_cos) = 12
    /\ a_cand # a_cos
    /\ a_cand[1] = a_cos[1]
    /\ \E i \in 1..Len(a_cand) : a_cand[i] >= Len(a_cos)

\* C25: for a non-empty index of N chunks and a request k, with
\* K = max(1, min(k, N)): the candidate set has min(max(12, 3K), N) >= K
\* members; the context holds distinct chunk indices of 0..N-1 only,
\* exactly K of them without the rerank (either strategy), and between 1
\* and K of them with the rerank.
C25_ContextSize ==
    Ranked =>
        \E N \in {Len(a_idx.texts)} :
        \E K \in {IF a_req.k <= N THEN (IF a_req.k >= 1 THEN a_req.k ELSE 1)
                  ELSE (IF N >= 1 THEN N ELSE 1)} :
        \E size \in {IF 3 * K >= 12 THEN (IF 3 * K <= N THEN 3 * K ELSE N)
                     ELSE (IF 12 <= N THEN 12 ELSE N)} :
            /\ N >= 1
            /\ size >= K
            /\ Len(a_cos) = size
            /\ \A i \in 1..Len(a_top) : a_top[i] \in 0..(N - 1)
            /\ \A i, j \in 1..Len(a_top) : i # j => a_top[i] # a_top[j]
            /\ Len(a_ctx) = Len(a_top)
            /\ ~a_req.use_llm_rerank => Len(a_top) = K
            /\ a_req.use_llm_rerank => (1 <= Len(a_top) /\ Len(a_top) <= K)

\* The judge named one valid candidate for an "mmr" request of 5 chunks on
\* an index large enough for 15 candidates: the context has one chunk.
C25_Witness ==
    /\ Ranked
    /\ a_req.use_llm_rerank
    /\ a_req.strategy = "mmr"
    /\ a_req.k = 5
    /\ Len(a_idx.texts) > 15
    /\ Len(a_cos) = 15
    /\ Len(a_top) = 1
    /\ Len(a_ctx) = 1

\* C10: two chunks of equal similarity to the query stand in the candidate
\* ordering in the order of their indices, and of two such chunks the
\* truncation keeps the one of the lower index.
C10_StableTieBreak ==
    Ranked =>
        /\ \A i, j \in 1..Len(a_cos) :
              (a_sims[a_cos[i] + 1] = a_sims[a_cos[j] + 1] /\ a_cos[i] < a_cos[j])
                  => i < j
        /\ \A x \in (0..(Len(a_sims) - 1)) \ ElemsOf(a_cos), y \in ElemsOf(a_cos) :
              a_sims[x + 1] = a_sims[y + 1] => y < x

\* The ranking numpy's introsort gives for the first 18 vectors of the pool
\* and the query (1, 0): chunks 10 and 17 have the same similarity, and
\* chunk 17 comes first; so do chunks 8 and 15, and chunks 4 and 6, of
\* which the truncation to 12 candidates keeps chunk 6.
C10_Witness ==
    /\ Ranked
    /\ Len(a_idx.embeddings) = 18
    /\ a_qv = <<1, 0>>
    /\ a_req.strategy = "cosine"
    /\ ~a_req.use_llm_rerank
    /\ a_req.k = 1
    /\ a_cos = <<17, 10, 1, 16, 15, 8, 11, 2, 5, 7, 13, 6>>
    /\ a_top = <<17>>

\* The characters that end a line (those str.splitlines breaks at): line
\* feed, vertical tab, form feed, carriage return, the file, group and
\* record separators, next line, line separator, paragraph separator.
LineBreaks == {NL, 11, 12, CR, 28, 29, 30, 133, 8232, 8233}

\* The context holds one item for each of the first k candidates of the
\* final candidate order, in that order, and the item of chunk i carries
\* the page stored at index i.
ContextOrder ==
    /\ Len(a_ctx) = Min(Max(1, Min(a_req.k, Len(a_idx.texts))), Len(a_cand))
    /\ \A n \in 1..Len(a_ctx) : a_ctx[n].page = a_idx.pages[a_cand[n] + 1]

\* What the code does to the text of an item: the line is the chunk's text
\* without the white space at its ends and with a space for every line
\* feed, every other character kept.
LineFeedsCollapsed ==
    (a_pc \in {"chat", "done"} /\ a_qv # <<>>) =>
        /\ ContextOrder
        /\ \A n \in 1..Len(a_ctx) :
              \E t \in {Strip(a_idx.texts[a_cand[n] + 1])} :
                  /\ Len(a_ctx[n].line) = Len(t)
                  /\ \A c \in 1..Len(t) :
                        /\ a_ctx[n].line[c] # NL
                        /\ t[c] # NL => a_ctx[n].line[c] = t[c]
                        /\ t[c] = NL => a_ctx[n].line[c] = SP

\* C16: the context holds one item for each of the first k candidates of
\* the final candidate order, in that order; the item of chunk i carries
\* the page stored at index i, and its line is one line: no character
\* that breaks a line is left in an item.
C16_ContextItems ==
    (a_pc \in {"chat", "done"} /\ a_qv # <<>>) =>
        /\ ContextOrder
        /\ \A n \in 1..Len(a_ctx) :
              \A c \in 1..Len(a_ctx[n].line) : a_ctx[n].line[c] \notin LineBreaks

\* A reranked "mmr" request whose context has two items, out of the index
\* order, of texts of both kinds: the line feeds of both are spaces in the
\* items, and the carriage return of one is still in its item.
C16_Witness ==
    /\ a_pc = "chat"
    /\ a_qv # <<>>
    /\ a_req.use_llm_rerank
    /\ a_req.strategy = "mmr"
    /\ Len(a_ctx) = 2
    /\ a_ctx[1].page > a_ctx[2].page
    /\ a_ctx[1].line # a_ctx[2].line
    /\ \A n \in 1..2 : \E c \in 1..Len(a_idx.texts[a_cand[n] + 1]) :
          a_idx.texts[a_cand[n] + 1][c] = NL
    /\ \A n \in 1..2 : \A c \in 1..Len(a_ctx[n].line) : a_ctx[n].line[c] # NL
    /\ \E n \in 1..2 : \E c \in 1..Len(a_ctx[n].line) : a_ctx[n].line[c] = CR

\* ------------------------------------------------------------------ MMR harness
\* Rows of unit length (in fixed point) of the bounded candidate matrices.
MmrVecs == {<<65, 0>>, <<39, 52>>, <<0, 65>>, <<-39, 52>>}

MmrQueries == {<<65, 0>>, <<39, 52>>}

\* Rows of the candidate matrices.
MaxCand == 4

MmrMatrices == UNION {{Array(E) : E \in [1..n -> MmrVecs]} : n \in 0..MaxCand}

\* The engine at rest: no file, no task, no request
InitEngineIdle ==
    /\ InitStore
    /\ InitChunkIdle
    /\ InitAskIdle

InitMmr ==
    /\ InitEngineIdle
    /\ InitJudgeIdle
    /\ InitSvcIdle
    /\ m_pc = "ready"
    /\ m_E \in MmrMatrices
    /\ m_qv \in MmrQueries
    /\ m_k \in 1..(MaxCand + 1)
    /\ m_lam \in Lambdas
    /\ m_sel = <<>>

CallMmr ==
    /\ m_pc = "ready"
    /\ m_sel' \in _mmr_indices(m_E, m_qv, m_k, m_lam)
    /\ m_pc' = "done"
    /\ UNCHANGED <<m_E, m_qv, m_k, m_lam>>
    /\ UNCHANGED <<chunkVars, storeVars, askVars, judgeVars, svcVars>>

NextMmr == CallMmr

SpecMmr == InitMmr /\ [][NextMmr]_vars

\* ------------------------------------------------------------------ MMR claims
\* sim(query, candidate j) and sim(candidate j, candidate s), 0-based
MSim(j) == Dot(m_E[j + 1], m_qv)
MPair(j, s) == Dot(m_E[j + 1], m_E[s + 1])

\* the largest similarity of j to the first t selected indices
MPenalty(j, t) ==
    CHOOSE d \in {MPair(j, m_sel[n]) : n \in 1..t} :
        \A n \in 1..t : MPair(j, m_sel[n]) <= d

\* lam * sim(query, j) - (1 - lam) * penalty, in tenths
MScore(j, t) == m_lam * MSim(j) - (LamDen - m_lam) * MPenalty(j, t)

MAll == 0..(Len(m_E) - 1)
MLeft(t) == MAll \ {m_sel[n] : n \in 1..t}

\* Candidates j and i get the same float score at every pass: their rows
\* are equal.
MSameScore(j, i) == m_E[j + 1] = m_E[i + 1]

\* C11: the first selected index has the largest similarity to the query;
\* each later one is an unselected candidate of the largest score, the
\* score being lam * sim(query, j) - (1 - lam) * max sim(j, selected); and
\* of several unselected candidates that share the largest score, as the
\* call computes it, the one scanned first, the one of the lowest index, is
\* selected.
C11_GreedyMmr ==
    (m_pc = "done" /\ Len(m_sel) > 0) =>
        /\ \A j \in MAll : MSim(j) <= MSim(m_sel[1])
        /\ \A t \in 1..(Len(m_sel) - 1) :
              /\ m_sel[t + 1] \in MLeft(t)
              /\ \A j \in MLeft(t) : MScore(j, t) <= MScore(m_sel[t + 1], t)
              /\ \A j \in MLeft(t) :
                    MSameScore(j, m_sel[t + 1]) => m_sel[t + 1] <= j

\* A call with 0 < lam < 1 that selected three or more indices, where at
\* one pass two unselected candidates shared the largest score and at
\* another pass the candidate selected was not the most similar one left.
C11_Witness ==
    /\ m_pc = "done"
    /\ m_lam = 3
    /\ Len(m_sel) >= 3
    /\ \E t \in 1..(Len(m_sel) - 1) :
          \E j \in MLeft(t) :
              /\ j # m_sel[t + 1]
              /\ MSameScore(j, m_sel[t + 1])
              /\ MScore(j, t) = MScore(m_sel[t + 1], t)
    /\ \E t \in 1..(Len(m_sel) - 1) :
          \E j \in MLeft(t) : MSim(j) > MSim(m_sel[t + 1])

\* C12: with lam = 1 the selected indices are in non-increasing order of
\* similarity to the query and no unselected candidate is strictly more
\* similar than a selected one.
C12_LambdaOneIsRelevance ==
    (m_pc = "done" /\ m_lam = LamDen) =>
        /\ \A t, u \in 1..Len(m_sel) : t < u => MSim(m_sel[t]) >= MSim(m_sel[u])
        /\ \A j \in MLeft(Len(m_sel)), t \in 1..Len(m_sel) : MSim(j) <= MSim(m_sel[t])

\* A call with lam = 1 and k below the number of candidates, over
\* candidates of different similarity, some of them left out.
C12_Witness ==
    /\ m_pc = "done"
    /\ m_lam = LamDen
    /\ Len(m_sel) >= 2
    /\ Len(m_sel) < Len(m_E)
    /\ MSim(m_sel[1]) > MSim(m_sel[2])
    /\ \E j \in MLeft(Len(m_sel)) : MSim(j) < MSim(m_sel[Len(m_sel)])

\* C13: the call returns exactly min(k, N) indices, all different, each in
\* 0..N-1: every candidate once when k >= N, and none when N = 0.
C13_MmrShape ==
    m_pc = "done" =>
        /\ Len(m_sel) = Min(m_k, Len(m_E))
        /\ \A t \in 1..Len(m_sel) : m_sel[t] \in MAll
        /\ \A t, u \in 1..Len(m_sel) : t # u => m_sel[t] # m_sel[u]
        /\ m_k >= Len(m_E) => {m_sel[t] : t \in 1..Len(m_sel)} = MAll
        /\ Len(m_E) = 0 => m_sel = <<>>

\* A call with k above the number of candidates, three or more, two of
\* them equal rows.
C13_Witness ==
    /\ m_pc = "done"
    /\ Len(m_E) >= 3
    /\ m_k > Len(m_E)
    /\ Len(m_sel) = Len(m_E)
    /\ \E a, b \in 1..Len(m_E) : a # b /\ m_E[a] = m_E[b]

\* ------------------------------------------------------------------ judge harness
\* Candidate texts given to the judge.
MaxTexts == 3

\* Entries of the "rank" arrays.
MaxRank == 3

JEntries == {JInt(-1), JInt(0), JInt(1), JInt(2), JTrue, JFloat(1), JStr(0)}

JArrays == UNION {{Array(a) : a \in [1..n -> JEntries]} : n \in 0..MaxRank}

JudgeReplies ==
    {[kind |-> "raise"], [kind |-> "text"], [kind |-> "garbled"],
     [kind |-> "object", rank |-> [t |-> "absent"]],
     [kind |-> "object", rank |-> [t |-> "scalar"]],
     [kind |-> "value", rank |-> [t |-> "absent"]]}
    \cup {[kind |-> "object", rank |-> [t |-> "array", items |-> a]] : a \in JArrays}
    \cup {[kind |-> "value", rank |-> [t |-> "array", items |-> a]] : a \in JArrays}

InitJudge ==
    /\ InitEngineIdle
    /\ InitMmrIdle
    /\ InitSvcIdle
    /\ j_pc = "ready"
    /\ j_n \in 0..MaxTexts
    /\ j_k \in 1..(MaxTexts + 1)
    /\ j_reply \in JudgeReplies
    /\ j_out = <<>>

CallJudge ==
    /\ j_pc = "ready"
    /\ j_out' = _llm_rerank(j_n, j_k, j_reply)
    /\ j_pc' = "done"
    /\ UNCHANGED <<j_n, j_k, j_reply>>
    /\ UNCHANGED <<chunkVars, storeVars, askVars, mmrVars, svcVars>>

NextJudge == CallJudge

SpecJudge == InitJudge /\ [][NextJudge]_vars

\* ------------------------------------------------------------------ judge claims
\* the effective k
JEffK == Max(1, Min(j_k, j_n))

\* the entries of the response's "rank" array, if it has one
JItems ==
    IF j_reply.kind = "object" /\ j_reply.rank.t = "array"
    THEN j_reply.rank.items ELSE <<>>

\* x stands in the response as an integer i with 0 <= i < len(texts)
JValid(x) == x.t = "int" /\ 0 <= x.v /\ x.v < j_n

\* the place where the integer i first stands in the response (0: nowhere)
JFirst(i) ==
    IF \E p \in 1..Len(JItems) : JItems[p] = JInt(i)
    THEN CHOOSE p \in 1..Len(JItems) :
            JItems[p] = JInt(i) /\ \A q \in 1..(p - 1) : JItems[q] # JInt(i)
    ELSE 0

\* the value returned is made of valid integers of the response only, each
\* once, in the order of their first appearance
JFromResponse ==
    /\ \A a \in 1..Len(j_out) : JFirst(j_out[a]) > 0 /\ JValid(JInt(j_out[a]))
    /\ \A a, b \in 1..Len(j_out) : a < b => JFirst(j_out[a]) < JFirst(j_out[b])

\* C14: whenever the provider's ranking is used (the value returned is not
\* the identity fallback), the value returned consists only of entries
\* that stand in the response's "rank" array as integers i with
\* 0 <= i < len(texts), each at most once, in order of first appearance.
C14_JudgeSanitizes ==
    (j_pc = "done" /\ j_out # Identity(JEffK)) => JFromResponse

\* A response whose array holds a valid integer twice, an integer out of
\* range and a float, and whose ranking was used.
C14_Witness ==
    /\ j_pc = "done"
    /\ j_out # Identity(JEffK)
    /\ Len(j_out) = 2
    /\ JFromResponse
    /\ \E p \in 1..Len(JItems) : ~JValid(JItems[p])
    /\ Len(JItems) = 3

\* C15: when the provider call fails, or the response has no valid JSON
\* ranking (no object, no "rank" array, or an array with no integer i,
\* 0 <= i < len(texts), left after sanitization), the value returned is
\* [0, ..., k-1] for the effective k; the call never raises.
C15_JudgeFallback ==
    (j_pc = "done" /\ \A p \in 1..Len(JItems) : ~JValid(JItems[p]))
        => j_out = Identity(JEffK)

\* A failed call, and a response without an object, answered by the
\* identity of two or more places.
C15_Witness ==
    /\ j_pc = "done"
    /\ j_reply.kind \in {"raise", "text"}
    /\ JEffK >= 2
    /\ j_out = Identity(JEffK)

\* C24: for every candidate list (the empty one included), every k and
\* every behaviour of the provider, the value returned has at most
\* max(1, min(k, len(texts))) entries, no duplicates, and only positions i
\* with 0 <= i < len(texts).
C24_JudgeInRange ==
    j_pc = "done" =>
        /\ Len(j_out) <= JEffK
        /\ \A a, b \in 1..Len(j_out) : a # b => j_out[a] # j_out[b]
        /\ \A a \in 1..Len(j_out) : 0 <= j_out[a] /\ j_out[a] < j_n

\* The judge was given no candidate and returned position 0.
C24_Witness ==
    /\ j_pc = "done"
    /\ j_n = 0
    /\ j_reply.kind = "raise"
    /\ j_out = <<0>>

\* ------------------------------------------------------------------ chunker harness
InitChunk ==
    /\ \E inp \in ChunkInputs :
          /\ inp.mc >= 1 /\ 0 <= inp.ov /\ inp.ov < inp.mc
          /\ pages_in = inp.pages
          /\ max_chars = inp.mc
          /\ overlap = inp.ov
    /\ chunks = <<>>
    /\ chunk_pc = "ready"
    /\ InitStore
    /\ InitAskIdle
    /\ InitFnIdle

\* rag_service.py:29-43  one call of _chunk_pages
CallChunkPages ==
    /\ chunk_pc = "ready"
    /\ chunks' = _chunk_pages(pages_in, max_chars, overlap)
    /\ chunk_pc' = "done"
    /\ UNCHANGED <<pages_in, max_chars, overlap>>
    /\ UNCHANGED <<storeVars, askVars, fnVars>>

NextChunk ==
    \/ CallChunkPages

SpecChunk == InitChunk /\ [][NextChunk]_vars

\* ------------------------------------------------------------------ chunker claims
\* Chunks of the output that carry page tag p, in output order.
ChunksOfPage(cs, p) == SelectSeq(cs, LAMBDA c : c.page = p)

\* C6: for max_chars >= 1 and 0 <= overlap < max_chars, every chunk emitted
\* by _chunk_pages has a non-empty text of at most max_chars characters.
C6_ChunkSizeBounded ==
    chunk_pc = "done" =>
        \A n \in 1..Len(chunks) :
            /\ Len(chunks[n].text) >= 1
            /\ Len(chunks[n].text) <= max_chars

\* A call returned several chunks, one of them full and one shorter.
C6_Witness ==
    /\ chunk_pc = "done"
    /\ Len(chunks) >= 2
    /\ \E n \in 1..Len(chunks) : Len(chunks[n].text) = max_chars
    /\ \E n \in 1..Len(chunks) : Len(chunks[n].text) < max_chars

\* Reference windowing, written from the specification's wording.

RefStripped(txt) ==
    LET ink == {n \in 1..Len(txt) : txt[n] \notin Whitespace}
        lo == CHOOSE n \in ink : \A m \in ink : n <= m
        hi == CHOOSE n \in ink : \A m \in ink : n >= m
    IN  [n \in 1..(hi - lo + 1) |-> txt[lo + n - 1]]

RefPageChunks(p, txt, mc, ov) ==
    IF IsBlankPage(txt) THEN <<>>
    ELSE LET t == RefStripped(txt)
             L == Len(t)
             s == mc - ov
             J == CHOOSE j \in 0..L :
                      /\ j * s + mc >= L
                      /\ \A i \in 0..(j - 1) : i * s + mc < L
         IN  [n \in 1..(J + 1) |->
                 [page |-> p,
                  text |-> [m \in 1..(Min(L, (n - 1) * s + mc) - (n - 1) * s)
                                |-> t[(n - 1) * s + m]]]]

RECURSIVE RefChunks(_, _, _, _)
RefChunks(pages, n, mc, ov) ==
    IF n = 0 THEN <<>>
    ELSE RefChunks(pages, n - 1, mc, ov) \o RefPageChunks(n, pages[n], mc, ov)

\* C7: _chunk_pages equals the reference windowing (pages in order, blank
\* pages contribute nothing, windows t[j*s : min(L, j*s + max_chars)] up to
\* the first one that ends at L, tagged with the 1-based page position); a
\* page with L <= max_chars yields exactly one chunk; the 4000-character
\* scenario yields the three chunks at 0-1800, 1600-3400 and 3200-4000.
C7_ReferenceWindowing ==
    chunk_pc = "done" =>
        /\ chunks = RefChunks(pages_in, Len(pages_in), max_chars, overlap)
        /\ \A p \in 1..Len(pages_in) :
              (~IsBlankPage(pages_in[p])
                 /\ Len(RefStripped(pages_in[p])) <= max_chars)
              => Len(ChunksOfPage(chunks, p)) = 1
        /\ (pages_in = ScenarioDoc /\ max_chars = 1800 /\ overlap = 200)
              => chunks = <<[page |-> 1, text |-> Slice(LongPage, 0, 1800)],
                            [page |-> 1, text |-> Slice(LongPage, 1600, 3400)],
                            [page |-> 1, text |-> Slice(LongPage, 3200, 4000)]>>

\* The end-to-end scenario has been chunked.
C7_Witness ==
    /\ chunk_pc = "done"
    /\ pages_in = ScenarioDoc
    /\ max_chars = 1800 /\ overlap = 200
    /\ Len(chunks) = 3

\* Offset of the k-th chunk of a page, from the lengths of the chunks
\* before it: each chunk starts overlap characters before the end of the
\* previous one.
RECURSIVE StartFromOverlap(_, _, _)
StartFromOverlap(cs, k, ov) ==
    IF k = 1 THEN 0
    ELSE StartFromOverlap(cs, k - 1, ov) + Len(cs[k - 1].text) - ov

\* C8: two consecutive chunks of one page overlap by exactly `overlap`
\* characters (the second starts overlap characters before the end of the
\* first, and the last overlap characters of the first are the first
\* overlap characters of the second); the first chunk of a page starts at
\* the page's own offset 0, whatever the previous page ended with.
C8_OverlapInvariant ==
    chunk_pc = "done" =>
        /\ \A n \in 1..(Len(chunks) - 1) :
              chunks[n].page = chunks[n + 1].page =>
                LET a == chunks[n].text
                    b == chunks[n + 1].text
                IN  /\ Len(a) >= overlap
                    /\ Len(b) > overlap
                    /\ Slice(a, Len(a) - overlap, Len(a)) = Slice(b, 0, overlap)
        /\ \A p \in 1..Len(pages_in) :
              LET cs == ChunksOfPage(chunks, p)
                  t == Strip(pages_in[p])
              IN  \A k \in 1..Len(cs) :
                    LET st == StartFromOverlap(cs, k, overlap)
                    IN  /\ st >= 0
                        /\ st + Len(cs[k].text) <= Len(t)
                        /\ cs[k].text = Slice(t, st, st + Len(cs[k].text))

\* Two consecutive chunks of one page with a positive overlap, followed by
\* a chunk of the next page.
C8_Witness ==
    /\ chunk_pc = "done"
    /\ overlap >= 1
    /\ \E n \in 1..(Len(chunks) - 2) :
          /\ chunks[n].page = chunks[n + 1].page
          /\ chunks[n + 1].page # chunks[n + 2].page
          /\ chunks[n].text # chunks[n + 1].text

\* ------------------------------------------------------------------ provider connectivity
MaxRetries == 3
DEFAULT_RETRIES == 3
DEFAULT_BACKOFF == 1
Backoffs == {DEFAULT_BACKOFF, 3}

\* What a request client.get("/api/tags") can end with: a response that
\* raise_for_status and json accept, or one of the errors it can raise.
GetOutcomes ==
    {"ok", "ConnectTimeout", "ReadTimeout", "ConnectError", "HTTPStatusError",
     "JSONDecodeError"}

\* ollama_service.py:72  except ConnectTimeout
IsRetriedAnyTimeout(outcome) == outcome \in {"ConnectTimeout", "ReadTimeout"}
IsRetried(outcome) == outcome = "ConnectTimeout"

\* ollama_service.py:74  backoff * (2 ** i)
DelayConstant(backoff, i) == backoff
Delay(backoff, i) == backoff * (2 ^ i)

Returned == [kind |-> "returned", error |-> "none"]
Raised(e) == [kind |-> "raised", error |-> e]

InitModels ==
    /\ InitEngineIdle
    /\ InitMmrIdle
    /\ InitJudgeIdle
    /\ InitWinIdle
    /\ InitUpIdle
    /\ g_pc = "ready"
    /\ g_retries \in 0..MaxRetries
    /\ g_backoff \in Backoffs
    /\ g_i = 0
    /\ g_out = NoOutcome
    /\ g_log = <<>>
    /\ g_waits = <<>>

\* ollama_service.py:66-69, 76  the call runs up to its first await: the
\* request of iteration 0, or the final attempt when retries = 0
GetModelsStart ==
    /\ g_pc = "ready"
    /\ g_pc' = "request"
    /\ g_i' = 0
    /\ UNCHANGED <<g_retries, g_backoff, g_out, g_log, g_waits>>
    /\ UNCHANGED <<chunkVars, storeVars, askVars, mmrVars, judgeVars, winVars, upVars>>

\* ollama_service.py:69-78  the request ends.  Inside the loop (i < retries)
\* a ConnectTimeout is caught and the coroutine sleeps; every other error,
\* and every error of the final attempt, propagates.
GetModelsReply(outcome) ==
    /\ g_pc = "request"
    /\ g_log' = Append(g_log, outcome)
    /\ IF outcome = "ok"
       THEN /\ g_pc' = "done"
            /\ g_out' = Returned
            /\ UNCHANGED g_waits
       ELSE IF g_i < g_retries /\ IsRetried(outcome)
       THEN /\ g_pc' = "sleep"
            /\ g_waits' = Append(g_waits, Delay(g_backoff, g_i))
            /\ UNCHANGED g_out
       ELSE /\ g_pc' = "done"
            /\ g_out' = Raised(outcome)
            /\ UNCHANGED g_waits
    /\ UNCHANGED <<g_retries, g_backoff, g_i>>
    /\ UNCHANGED <<chunkVars, storeVars, askVars, mmrVars, judgeVars, winVars, upVars>>

\* ollama_service.py:74, 67-69, 76  the sleep ends: the next iteration, or
\* the final attempt after the loop, sends its request
GetModelsWake ==
    /\ g_pc = "sleep"
    /\ g_i' = g_i + 1
    /\ g_pc' = "request"
    /\ UNCHANGED <<g_retries, g_backoff, g_out, g_log, g_waits>>
    /\ UNCHANGED <<chunkVars, storeVars, askVars, mmrVars, judgeVars, winVars, upVars>>

NextModels ==
    \/ GetModelsStart
    \/ \E outcome \in GetOutcomes : GetModelsReply(outcome)
    \/ GetModelsWake

\* Every request ends (the client has a connect and a read timeout,
\* ollama_service.py:53-60) and every sleep ends.
SpecModels ==
    /\ InitModels
    /\ [][NextModels]_vars
    /\ WF_vars(GetModelsStart)
    /\ WF_vars(\E outcome \in GetOutcomes : GetModelsReply(outcome))
    /\ WF_vars(GetModelsWake)

\* ------------------------------------------------------------------ provider connectivity claims
\* Requests sent so far: the answered ones and the one in flight.
GetRequests == Len(g_log) + (IF g_pc = "request" THEN 1 ELSE 0)

BoundedRetry ==
    /\ GetRequests <= g_retries + 1
    /\ \A n \in 1..(Len(g_log) - 1) : g_log[n] = "ConnectTimeout"
    /\ Len(g_waits) <= g_retries
    /\ \A n \in 1..Len(g_waits) :
          /\ g_log[n] = "ConnectTimeout"
          /\ g_waits[n] = g_backoff * (2 ^ (n - 1))
    /\ g_pc = "sleep" => Len(g_waits) = Len(g_log)
    /\ g_pc = "request" => Len(g_waits) = Len(g_log)
    /\ g_pc = "done" =>
          /\ g_log # <<>>
          /\ g_out.kind \in {"returned", "raised"}
          /\ g_out.kind = "returned" =>
                /\ g_log[Len(g_log)] = "ok"
                /\ \A n \in 1..(Len(g_log) - 1) : g_log[n] # "ok"
          /\ g_out.kind = "raised" =>
                /\ g_out.error = g_log[Len(g_log)]
                /\ g_out.error # "ok"
                /\ \/ g_out.error # "ConnectTimeout"
                   \/ Len(g_log) = g_retries + 1

\* C21: _get_models sends at most retries + 1 requests, retries only after
\* a connect timeout, sleeps backoff * 2^i after the timeout of iteration i
\* (1s, 2s, 4s by default), and always terminates: it returns the first
\* successful response, or raises the error of the request that failed
\* with another error or of the final attempt.
C21_BoundedRetry == [](BoundedRetry) /\ <>(g_pc = "done")

\* The default call timed out three times, slept 1, 2 and 4 seconds and
\* returned the response of its fourth request.
C21_Witness ==
    /\ g_pc = "done"
    /\ g_retries = DEFAULT_RETRIES
    /\ g_backoff = DEFAULT_BACKOFF
    /\ g_log = <<"ConnectTimeout", "ConnectTimeout", "ConnectTimeout", "ok">>
    /\ g_waits = <<1, 2, 4>>
    /\ g_out = Returned

\* ------------------------------------------------------------------ chunker, statement by statement
\* Arguments for the stepwise run: every document of at most one page with
\* every pair of widths, and some documents of several pages.
WindowInputs ==
    {inp \in ChunkInputs :
        /\ Len(inp.pages) <= 1 \/ inp.pages = ScenarioDoc
        /\ inp.mc >= 1 /\ 0 <= inp.ov /\ inp.ov < inp.mc}
    \cup {[pages |-> <<<<97, SP, 98>>, <<SP>>, <<>>, <<SP, 98, 97, 98, 97, SP>>>>,
           mc |-> 2, ov |-> o] : o \in 0..1}

InitWindow ==
    /\ InitEngineIdle
    /\ InitMmrIdle
    /\ InitJudgeIdle
    /\ InitGetIdle
    /\ InitUpIdle
    /\ \E inp \in WindowInputs :
          /\ w_arg = inp
          /\ w_pages = inp.pages
          /\ w_mc = inp.mc
          /\ w_ov = inp.ov
    /\ w_call = "first"
    /\ w_first = NoResult
    /\ w_mid = NoResult
    /\ w_pc = "ready"
    /\ w_i = 0
    /\ w_t = <<>>
    /\ w_start = 0
    /\ w_chunks = <<>>
    /\ w_windows = <<>>

\* rag_service.py:30  chunks = []: every call begins with a list of its
\* own, whatever an earlier call appended to.
KeptChunks(left) == left
FreshChunks(left) == <<>>

\* rag_service.py:30-31  chunks = [], the for loop begins.  The other
\* locals are as the last call left them.
WinCall ==
    /\ w_pc = "ready"
    /\ w_pc' = "page"
    /\ w_i' = 0
    /\ w_chunks' = FreshChunks(w_chunks)
    /\ w_windows' = <<>>
    /\ UNCHANGED <<w_pages, w_mc, w_ov, w_t, w_start, winCaller>>
    /\ UNCHANGED <<chunkVars, storeVars, askVars, mmrVars, judgeVars, getVars, upVars>>

\* rag_service.py:31-36, 43  the for loop takes the next page and strips it
\* into t, skips it if t is empty, or returns when the pages are exhausted
WinPage ==
    /\ w_pc = "page"
    /\ IF w_i >= Len(w_pages)
       THEN /\ w_pc' = "done"
            /\ UNCHANGED <<w_i, w_t, w_start>>
       ELSE \E t \in {Strip(w_pages[w_i + 1])} :
               IF t = <<>>
               THEN /\ w_t' = t
                    /\ w_i' = w_i + 1
                    /\ w_pc' = "page"
                    /\ UNCHANGED w_start
               ELSE /\ w_t' = t
                    /\ w_start' = 0
                    /\ w_pc' = "window"
                    /\ UNCHANGED w_i
    /\ UNCHANGED <<w_pages, w_mc, w_ov, w_chunks, w_windows, winCaller>>
    /\ UNCHANGED <<chunkVars, storeVars, askVars, mmrVars, judgeVars, getVars, upVars>>

\* rag_service.py:40  if end == L: break
PageDoneNever(end, L) == FALSE
PageDone(end, L) == end = L

\* rag_service.py:37-42  one pass of the while loop, from its test to the
\* break or to the assignment of start
WinWindow ==
    /\ w_pc = "window"
    /\ IF ~(w_start < Len(w_t))
       THEN /\ w_i' = w_i + 1
            /\ w_pc' = "page"
            /\ UNCHANGED <<w_start, w_chunks, w_windows>>
       ELSE \E end \in {WindowEnd(Len(w_t), w_start, w_mc)} :
               /\ w_chunks' = Append(w_chunks,
                                     [page |-> PageTag(w_i),
                                      text |-> Slice(w_t, w_start, end)])
               /\ w_windows' = Append(w_windows,
                                      [page |-> PageTag(w_i),
                                       start |-> w_start, end |-> end])
               /\ IF PageDone(end, Len(w_t))
                  THEN /\ w_i' = w_i + 1
                       /\ w_pc' = "page"
                       /\ UNCHANGED w_start
                  ELSE /\ w_start' = NextStart(end, w_ov)
                       /\ w_pc' = "window"
                       /\ UNCHANGED w_i
    /\ UNCHANGED <<w_pages, w_mc, w_ov, w_t, winCaller>>
    /\ UNCHANGED <<chunkVars, storeVars, askVars, mmrVars, judgeVars, getVars, upVars>>

\* Arguments of a call made between the two calls under test.
OtherInputs ==
    {[pages |-> <<<<97, 98, SP, 97>>, <<SP>>, <<98>>>>, mc |-> 2, ov |-> 1],
     [pages |-> <<>>, mc |-> DEFAULT_MAX_CHARS, ov |-> DEFAULT_OVERLAP]}

\* The caller has the value of the first call and calls again on the list
\* and the widths it passed, as the call left them, or first on other
\* arguments; after that call it passes its own list and widths again.
WinReturn ==
    /\ w_pc = "done"
    /\ w_pc' = "ready"
    /\ \/ /\ w_call = "first"
          /\ w_call' = "again"
          /\ w_first' = w_chunks
          /\ UNCHANGED <<w_pages, w_mc, w_ov, w_mid>>
       \/ /\ w_call = "first"
          /\ w_call' = "other"
          /\ w_first' = w_chunks
          /\ \E inp \in OtherInputs :
                /\ w_pages' = inp.pages
                /\ w_mc' = inp.mc
                /\ w_ov' = inp.ov
          /\ UNCHANGED w_mid
       \/ /\ w_call = "other"
          /\ w_call' = "again"
          /\ w_mid' = w_chunks
          /\ w_pages' = w_arg.pages
          /\ w_mc' = w_arg.mc
          /\ w_ov' = w_arg.ov
          /\ UNCHANGED w_first
    /\ UNCHANGED <<w_i, w_t, w_start, w_chunks, w_windows, w_arg>>
    /\ UNCHANGED <<chunkVars, storeVars, askVars, mmrVars, judgeVars, getVars, upVars>>

NextWindow ==
    \/ WinCall
    \/ WinPage
    \/ WinWindow
    \/ WinReturn

\* The function awaits nothing: each of its statements runs.
SpecWindow ==
    /\ InitWindow
    /\ [][NextWindow]_vars
    /\ WF_vars(NextWindow)

\* ------------------------------------------------------------------ chunker termination claims
WindowsOfPage(p) == SelectSeq(w_windows, LAMBDA w : w.page = p)

\* What the chunks appended so far show.
WindowProgress ==
    /\ Len(w_windows) = Len(w_chunks)
    /\ \A n \in 1..(Len(w_windows) - 1) :
          w_windows[n].page = w_windows[n + 1].page =>
              /\ w_windows[n + 1].start > w_windows[n].start
              /\ w_windows[n + 1].end > w_windows[n].end
    /\ \A n \in 1..Len(w_windows) : w_windows[n].end > w_windows[n].start
    /\ w_pc = "done" =>
          /\ w_chunks = _chunk_pages(w_pages, w_mc, w_ov)
          /\ \A p \in 1..Len(w_pages) :
                \A c \in 0..(Len(Strip(w_pages[p])) - 1) :
                    \E n \in 1..Len(w_windows) :
                        /\ w_windows[n].page = p
                        /\ w_windows[n].start <= c
                        /\ c < w_windows[n].end
                        /\ w_chunks[n].text[c - w_windows[n].start + 1]
                             = Strip(w_pages[p])[c + 1]

\* The while loop goes round on the same page.
SamePageStep == w_pc = "window" /\ w_pc' = "window"

\* C23: for max_chars >= 1 and 0 <= overlap < max_chars _chunk_pages
\* terminates on every sequence of pages: the window start strictly
\* increases on every pass of the loop, every chunk after the first of a
\* page ends after the previous one (it holds a character the previous
\* one does not), and every character of each page's stripped text lies
\* in a chunk.
C23_ChunkingTerminates ==
    /\ [][SamePageStep => w_start' > w_start]_vars
    /\ []WindowProgress
    /\ <>(w_pc = "done")

\* A run over four pages, two of them without text, has returned: a page
\* gave three windows that overlap by one character.
C23_Witness ==
    /\ w_pc = "done"
    /\ Len(w_pages) = 4
    /\ w_ov = 1
    /\ Len(WindowsOfPage(1)) = 2
    /\ Len(WindowsOfPage(4)) = 3
    /\ WindowsOfPage(4)[2].start = 1
    /\ WindowsOfPage(4)[3].end = 4

\* C20: two runs of _chunk_pages on the same page sequence with the same
\* max_chars and overlap return identical sequences of (page, text) pairs,
\* whatever ran between them: the second call, run statement by statement
\* from the locals the calls before it left, returns what the first did.
C20_ChunkingRepeatable ==
    (w_pc = "done" /\ w_call = "again") => w_chunks = w_first

\* The second run returned several chunks on the arguments of the first,
\* after a call on other arguments had returned other chunks in between.
C20_Witness ==
    /\ w_pc = "done"
    /\ w_call = "again"
    /\ <<w_pages, w_mc, w_ov>> = <<w_arg.pages, w_arg.mc, w_arg.ov>>
    /\ w_mid # NoResult
    /\ w_mid # <<>>
    /\ w_mid # w_first
    /\ Len(w_first) >= 2
    /\ w_chunks = w_first

\* ------------------------------------------------------------------ document registry
\* Files of one upload request.
MaxFiles == 2

SLASH == 47
BACKSLASH == 92
UNDERSCORE == 95

\* safe.py:4  the characters [A-Za-z0-9._ -] that re.sub leaves alone
SafeChars == (65..90) \cup (97..122) \cup (48..57) \cup {46, UNDERSCORE, SP, 45}

\* safe.py:3  name.replace("\\", "/").split("/")[-1]
LastComponent(name) ==
    LET n == [i \in 1..Len(name) |->
                 IF name[i] = BACKSLASH THEN SLASH ELSE name[i]]
        cut == CHOOSE i \in 0..Len(n) :
                   /\ i = 0 \/ n[i] = SLASH
                   /\ \A j \in (i + 1)..Len(n) : n[j] # SLASH
    IN  SubSeq(n, cut + 1, Len(n))

\* safe.py:4  re.sub(r"[^A-Za-z0-9._ -]+", "_", name): every run of other
\* characters becomes one underscore
RECURSIVE ReSub(_, _)
ReSub(name, i) ==
    IF i > Len(name) THEN <<>>
    ELSE IF name[i] \in SafeChars THEN <<name[i]>> \o ReSub(name, i + 1)
    ELSE LET nxt == CHOOSE j \in (i + 1)..(Len(name) + 1) :
                        /\ j = Len(name) + 1 \/ name[j] \in SafeChars
                        /\ \A m \in (i + 1)..(j - 1) : name[m] \notin SafeChars
         IN  <<UNDERSCORE>> \o ReSub(name, nxt)

\* safe.py:2-5
safe_filename(name) ==
    LET sub == ReSub(LastComponent(name), 1)
    IN  SubSeq(sub, 1, Min(200, Len(sub)))

\* paths.py:11-12  os.path.join(base, safe_filename(name)), below base
safe_join(name) == safe_filename(name)

\* paths.py:16  the registry file of the storage directory, "index.json"
IndexFile == <<105, 110, 100, 101, 120, 46, 106, 115, 111, 110>>

\* pdf_service.py:30  index_path + ".tmp", the file _write_index writes
\* before it replaces the registry file with it
TmpFile == IndexFile \o <<46, 116, 109, 112>>

\* pdf_service.py:63  out_path values that name a directory, "", "." and
\* "..": opening them for writing raises IsADirectoryError.
Directories == {<<>>, <<46>>, <<46, 46>>}

\* pdf_service.py:61, 130  f"{doc_id}__{name}"
FileNameOf(doc_id, name) == doc_id \o <<UNDERSCORE, UNDERSCORE>> \o name

\* The decimal digits of a number, as an f-string writes them.
RECURSIVE Decimal(_)
Decimal(n) ==
    IF n < 10 THEN <<48 + n>> ELSE Decimal(n \div 10) \o <<48 + (n % 10)>>

\* pdf_service.py:57  f"document-{created_at}.pdf"
DocumentName(created_at) ==
    <<100, 111, 99, 117, 109, 101, 110, 116, 45>> \o Decimal(created_at)
        \o <<46, 112, 100, 102>>

\* pdf_service.py:57  name = up.filename or f"document-{created_at}.pdf":
\* a file sent without a name, or with the empty one, gets the default.
NameOr(filename, created_at) ==
    IF filename = <<>> THEN DocumentName(created_at) ELSE filename

\* pdf_service.py:56  what int(time.time()) returns while the calls run.
Clock == {1793305175, 1793305176}

\* pdf_service.py:55  doc_id = uuid.uuid4().hex: 32 hexadecimal digits no
\* other file gets, here the digit of the task, the file's position and
\* thirty zeros.
HexZeros == [i \in 1..30 |-> 48]
TaskDigit(u) == IF u = "u1" THEN 49 ELSE 50
NewDocId(u, n) == <<TaskDigit(u), 48 + n>> \o HexZeros

\* A document saved before the uploads begin, under the name "a".
OldDocId == <<48, 49>> \o HexZeros
OldMeta == Meta(<<97>>, FileNameOf(OldDocId, <<97>>), <<>>)

\* File names the clients send: "a", "d\a(1)", none, "x/index.json",
\* "x/index.json.tmp", "x/" and the one character U+D800.
UploadNames ==
    {<<97>>, <<100, BACKSLASH, 97, 40, 49, 41>>, <<>>,
     <<120, SLASH>> \o IndexFile, <<120, SLASH>> \o TmpFile, <<120, SLASH>>,
     <<55296>>}

\* The names sent in requests of several files: "a" and "x/index.json".
ManyNames == {<<97>>, <<120, SLASH>> \o IndexFile}

\* Names a client renames a document to ("b", "x/y" and the one character
\* U+DC80), and overviews it stores.
RenameNames == {<<98>>, <<120, SLASH, 121>>, <<56448>>}
Overviews == {<<"summary">>}

RECURSIVE NameLists(_)
NameLists(n) ==
    IF n = 0 THEN {<<>>}
    ELSE {Append(l, name) : l \in NameLists(n - 1), name \in ManyNames}

\* The files of an upload request: one file of any name, or two to
\* MaxFiles files.
FileLists ==
    {<<name>> : name \in UploadNames} \cup UNION {NameLists(n) : n \in 2..MaxFiles}

\* The requests of each task: the second one sends one file, named as in
\* the requests of several files.
FileListsOf(u) == IF u = "u1" THEN FileLists ELSE {<<name>> : name \in ManyNames}

\* pdf_service.py:20-27, 49  the "docs" of the registry file.  A registry
\* file that is missing, empty or holds bytes json.load rejects reads as
\* {"docs": {}}: registry is what _read_index returns for the file.
_read_index(reg) == reg

\* The surrogate code points, and those of them (U+DC80..U+DCFF) that
\* os.fsencode writes as one byte each; it raises UnicodeEncodeError on the
\* others, and so does the UTF-8 encoder of a text file on all of them.
Surrogates == 55296..57343
EscapedBytes == 56448..56575
HasSurrogate(name) == \E i \in 1..Len(name) : name[i] \in Surrogates

\* pdf_service.py:31-32  json.dump(data, f, ensure_ascii=False) into the
\* UTF-8 file raises UnicodeEncodeError when a name or a file name of docs
\* holds a surrogate.
DumpRaises(docs) ==
    \E d \in DOMAIN docs : HasSurrogate(docs[d].name) \/ HasSurrogate(docs[d].file)

\* pdf_service.py:78-79, 29-33  idx["docs"] = docs; _write_index:
\* index.json.tmp is written and renamed to index.json, whose content is
\* then the caller's docs.  When json.dump raises the registry file stays
\* as it was.
_write_index(reg, docs) == IF DumpRaises(docs) THEN reg ELSE docs

\* pdf_service.py:30-33  the storage directory after _write_index: the file
\* index.json.tmp, also one an upload stored, has become the registry; when
\* json.dump raised it is left behind.
DirAfterWrite(disk, docs) ==
    IF DumpRaises(docs) THEN disk \cup {TmpFile} ELSE disk \ {TmpFile}

\* pdf_service.py:30-33  the open handles after _write_index: a handle on
\* index.json.tmp is one on the new registry file (open(tmp, "w") emptied
\* the file it refers to, os.replace renamed it); a handle on the registry
\* file replaced is left with a file that has no name.  Without the
\* os.replace (json.dump raised) every handle is on the file it was on.
FdAfterWrite(fd, docs) ==
    IF DumpRaises(docs) THEN fd
    ELSE [u \in DOMAIN fd |-> IF fd[u] = "tmp" THEN "index"
                              ELSE IF fd[u] = "index" THEN "file"
                              ELSE fd[u]]

\* pdf_service.py:63  the file the handle refers to when out_path is open
FdOf(out_path) ==
    IF out_path = IndexFile THEN "index"
    ELSE IF out_path = TmpFile THEN "tmp"
    ELSE "file"

\* pdf_service.py:63-64  the registry once bytes the handle holds may have
\* reached its file, at the end of f.write or when the handle closes.  On a
\* handle to the registry file they overwrite the JSON text from its
\* start, and the file reads as no documents; nothing happens when the
\* buffer was written before the file became the registry, or when the
\* upload is empty.  The bytes uploaded are not a JSON document.
Flushed(reg, fd) == IF fd = "index" THEN {reg, NoDocs} ELSE {reg}

\* docs[doc_id] = meta
Put(docs, id, meta) ==
    [d \in DOMAIN docs \cup {id} |-> IF d = id THEN meta ELSE docs[d]]

\* docs.pop(doc_id)
Pop(docs, id) == [d \in DOMAIN docs \ {id} |-> docs[d]]

storeRest == <<vecfile, bpc, bdoc, btexts, bpages, bidx, bout, bret, loaded,
               committed, bwrote, bconc, bhist>>

InitUpload ==
    /\ InitChunkIdle
    /\ InitAskIdle
    /\ InitMmrIdle
    /\ InitJudgeIdle
    /\ InitGetIdle
    /\ InitWinIdle
    /\ InitUpIdle
    /\ registry = [d \in {OldDocId} |-> OldMeta]
    /\ storage = {OldMeta.file}
    /\ vecfile = [d \in DocIds |-> NoFile]
    /\ bpc = [b \in Builders |-> "idle"]
    /\ bdoc = [b \in Builders |-> "d1"]
    /\ btexts = [b \in Builders |-> <<>>]
    /\ bpages = [b \in Builders |-> <<>>]
    /\ bidx = [b \in Builders |-> 0]
    /\ bout = [b \in Builders |-> <<>>]
    /\ bret = [b \in Builders |-> Ret("none", 0, NoItem)]
    /\ loaded = NoLoad
    /\ committed = [d \in DocIds |-> NeverBuilt]
    /\ bwrote = [b \in Builders |-> FALSE]
    /\ bconc = [b \in Builders |-> FALSE]
    /\ bhist = [b \in Builders |-> NoCall]

upRest == <<chunkVars, storeRest, askVars, mmrVars, judgeVars, getVars, winVars>>

\* The file the call of task u is at: its position, its id, the name the
\* client sent, and the file name of line 61.
FilePos(u) == Len(u_results[u]) + 1
FileId(u) == NewDocId(u, FilePos(u))
FileName(u) == u_files[u][FilePos(u)]
StoredAs(u) == FileNameOf(FileId(u), u_name[u])

\* pdf_service.py:44-53  the call reads the registry and reaches its first
\* await, up.read() of the first file
UploadStart(u, files) ==
    /\ u_pc[u] = "idle"
    /\ u_files' = [u_files EXCEPT ![u] = files]
    /\ u_docs' = [u_docs EXCEPT ![u] = _read_index(registry)]
    /\ u_results' = [u_results EXCEPT ![u] = <<>>]
    /\ u_pc' = [u_pc EXCEPT ![u] = "read"]
    /\ UNCHANGED <<registry, storage, u_name, u_fd, u_ret, u_returned, u_calls>>
    /\ UNCHANGED upRest

\* pdf_service.py:53-62  up.read() ends: the call takes the time, names the
\* file and reaches aiofiles.open
UploadRead(u) ==
    /\ u_pc[u] = "read"
    /\ \E created_at \in Clock :
          u_name' = [u_name EXCEPT ![u] = NameOr(FileName(u), created_at)]
    /\ u_pc' = [u_pc EXCEPT ![u] = "open"]
    /\ UNCHANGED <<registry, storage, u_fd>>

\* pdf_service.py:62-64  aiofiles.open(out_path, "wb") ends: the file
\* out_path names stands and is empty.  safe_join keeps the last path
\* component of the file name, so out_path may be the registry file, which
\* then reads as no documents, or index.json.tmp.  A directory is not
\* opened (the await raises).
UploadOpen(u) ==
    /\ u_pc[u] = "open"
    /\ \E out_path \in {safe_join(StoredAs(u))} :
          /\ out_path \notin Directories
          /\ registry' = IF out_path = IndexFile THEN NoDocs ELSE registry
          /\ storage' = IF out_path = IndexFile THEN storage
                        ELSE storage \cup {out_path}
          /\ u_fd' = [u_fd EXCEPT ![u] = FdOf(out_path)]
    /\ u_pc' = [u_pc EXCEPT ![u] = "write"]
    /\ UNCHANGED u_name

\* pdf_service.py:64  f.write(raw) ends and the handle begins to close
UploadWrite(u) ==
    /\ u_pc[u] = "write"
    /\ registry' \in Flushed(registry, u_fd[u])
    /\ u_pc' = [u_pc EXCEPT ![u] = "close"]
    /\ UNCHANGED <<storage, u_name, u_fd>>

\* pdf_service.py:53-64  an await of the file transfer ends and the call
\* runs to the next one: read -> open -> write -> close
UploadIo(u) ==
    /\ \/ UploadRead(u)
       \/ UploadOpen(u)
       \/ UploadWrite(u)
    /\ UNCHANGED <<u_files, u_docs, u_results, u_ret, u_returned, u_calls>>
    /\ UNCHANGED upRest

\* pdf_service.py:53-64  an await of the file transfer raises.  When it is
\* f.write the async with closes the handle first, one more await
\* ("raise"); then the exception leaves the call, which ends without a
\* result and without writing the registry.
UploadIoFails(u) ==
    /\ u_pc[u] \in {"read", "open", "write", "close", "raise"}
    /\ registry' \in Flushed(registry, u_fd[u])
    /\ IF u_pc[u] = "write"
       THEN /\ u_pc' = [u_pc EXCEPT ![u] = "raise"]
            /\ UNCHANGED <<u_ret, u_fd>>
       ELSE /\ u_pc' = [u_pc EXCEPT ![u] = "done"]
            /\ u_ret' = [u_ret EXCEPT ![u] = [kind |-> "raised", docs |-> <<>>]]
            /\ u_fd' = [u_fd EXCEPT ![u] = "none"]
    /\ UNCHANGED <<storage, u_files, u_name, u_docs, u_results, u_returned,
                   u_calls>>
    /\ UNCHANGED upRest

\* pdf_service.py:64-80  the handle is closed and the file stored: the
\* document enters docs, registered under the file name of line 61 (not the
\* one safe_join made of it), and results (Document(...) takes any name,
\* a surrogate included); then the next file is read, or the registry is
\* written and results returned, unless json.dump raises: index.json.tmp
\* is left behind and the call raises
UploadStored(u) ==
    /\ u_pc[u] = "close"
    /\ \E id \in {FileId(u)}, closed \in {[u_fd EXCEPT ![u] = "none"]},
          reg \in Flushed(registry, u_fd[u]) :
       \E docs \in {Put(u_docs[u], id, Meta(u_name[u], StoredAs(u), <<>>))},
          results \in {Append(u_results[u], id)} :
          /\ u_docs' = [u_docs EXCEPT ![u] = docs]
          /\ IF Len(results) < Len(u_files[u])
             THEN /\ registry' = reg
                  /\ u_fd' = closed
                  /\ u_results' = [u_results EXCEPT ![u] = results]
                  /\ u_pc' = [u_pc EXCEPT ![u] = "read"]
                  /\ UNCHANGED <<storage, u_ret, u_returned>>
             ELSE /\ registry' = _write_index(reg, docs)
                  /\ storage' = DirAfterWrite(storage, docs)
                  /\ u_fd' = FdAfterWrite(closed, docs)
                  /\ u_results' = [u_results EXCEPT ![u] = results]
                  /\ u_pc' = [u_pc EXCEPT ![u] = "done"]
                  /\ IF DumpRaises(docs)
                     THEN /\ u_ret' = [u_ret EXCEPT ![u] = [kind |-> "raised",
                                                            docs |-> <<>>]]
                          /\ UNCHANGED u_returned
                     ELSE /\ u_ret' = [u_ret EXCEPT ![u] = [kind |-> "returned",
                                                            docs |-> results]]
                          /\ u_returned' = u_returned
                                              \cup {results[i] : i \in 1..Len(results)}
    /\ UNCHANGED <<u_files, u_name, u_calls>>
    /\ UNCHANGED upRest

\* The runs hold one call of a function that edits the registry.
Called == u_calls # {}

\* Ids delete_document has removed.
Deleted == {c[2] : c \in {x \in u_calls : x[1] = "delete_document"}}

\* pdf_service.py:102-118  delete_document of a registered id, in one step
\* of the event loop: the entry is popped, the registered file removed if
\* it stands, the registry rewritten.  (An id the registry does not hold:
\* the call returns False and changes nothing.)
DeleteDocument(id) ==
    /\ ~Called
    /\ \E docs \in {_read_index(registry)} :
          /\ id \in DOMAIN docs
          /\ \E left \in {Pop(docs, id)} :
                /\ storage' = DirAfterWrite(storage \ {docs[id].file}, left)
                /\ registry' = _write_index(registry, left)
                /\ u_fd' = FdAfterWrite(u_fd, left)
    /\ u_calls' = u_calls \cup {<<"delete_document", id>>}
    /\ UNCHANGED <<u_pc, u_files, u_name, u_docs, u_results, u_ret, u_returned>>
    /\ UNCHANGED upRest

\* The bytes os.fsencode makes of a character of a path.
Utf8Len(c) ==
    IF c < 128 THEN 1
    ELSE IF c < 2048 THEN 2
    ELSE IF c \in EscapedBytes THEN 1
    ELSE IF c < 65536 THEN 3
    ELSE 4

RECURSIVE ByteLen(_)
ByteLen(name) == IF name = <<>> THEN 0 ELSE Utf8Len(Head(name)) + ByteLen(Tail(name))

\* The longest file name the file system takes, in bytes.
NAME_MAX == 255

\* pdf_service.py:136  os.replace(old_path, new_path) raises: new_file is
\* joined to the storage directory as it is, so a "/" in it names a
\* directory that does not exist; a NUL, a surrogate os.fsencode cannot
\* encode or a name too long is refused.
ReplaceRaises(new_file) ==
    \/ \E i \in 1..Len(new_file) :
          new_file[i] \in {SLASH, 0} \cup (Surrogates \ EscapedBytes)
    \/ ByteLen(new_file) > NAME_MAX

\* pdf_service.py:120-143  rename_document of a registered id: the file at
\* the old registered path, if it stands, moves to the new one; the entry
\* gets the new name and file and the registry is written, unless
\* json.dump raises, which leaves the file moved and the registry as it
\* was.  (An id the registry does not hold, or an os.replace that raises:
\* the call returns None and changes nothing.)
RenameDocument(id, new_name) ==
    /\ ~Called
    /\ \E docs \in {_read_index(registry)} :
          /\ id \in DOMAIN docs
          /\ \E new_file \in {FileNameOf(id, IF new_name = <<>> THEN docs[id].name
                                             ELSE new_name)} :
             \E renamed \in {Put(docs, id, Meta(new_name, new_file, docs[id].overview))} :
                /\ path_exists(storage, docs[id].file) => ~ReplaceRaises(new_file)
                /\ storage' = DirAfterWrite(
                                 IF path_exists(storage, docs[id].file)
                                 THEN (storage \ {docs[id].file}) \cup {new_file}
                                 ELSE storage,
                                 renamed)
                /\ registry' = _write_index(registry, renamed)
                /\ u_fd' = FdAfterWrite(u_fd, renamed)
    /\ u_calls' = u_calls \cup {<<"rename_document", id>>}
    /\ UNCHANGED <<u_pc, u_files, u_name, u_docs, u_results, u_ret, u_returned>>
    /\ UNCHANGED upRest

\* pdf_service.py:145-155  set_overview of a registered id
SetOverview(id, overview) ==
    /\ ~Called
    /\ \E docs \in {_read_index(registry)} :
          /\ id \in DOMAIN docs
          /\ \E viewed \in {Put(docs, id, Meta(docs[id].name, docs[id].file, overview))} :
                /\ registry' = _write_index(registry, viewed)
                /\ storage' = DirAfterWrite(storage, viewed)
                /\ u_fd' = FdAfterWrite(u_fd, viewed)
    /\ u_calls' = u_calls \cup {<<"set_overview", id>>}
    /\ UNCHANGED <<u_pc, u_files, u_name, u_docs, u_results, u_ret, u_returned>>
    /\ UNCHANGED upRest

\* Ids the clients name in these calls: the document saved before, and
\* the first one of an upload.
KnownIds == {OldDocId, NewDocId("u1", 1)}

NextUpload ==
    \/ \E u \in UploadTasks : \E files \in FileListsOf(u) : UploadStart(u, files)
    \/ \E u \in UploadTasks : UploadIo(u)
    \/ \E u \in UploadTasks : UploadIoFails(u)
    \/ \E u \in UploadTasks : UploadStored(u)
    \/ \E id \in KnownIds : DeleteDocument(id)
    \/ \E id \in KnownIds, new_name \in RenameNames : RenameDocument(id, new_name)
    \/ \E id \in KnownIds, overview \in Overviews : SetOverview(id, overview)

SpecUpload == InitUpload /\ [][NextUpload]_vars

\* ------------------------------------------------------------------ document registry claims
\* C26: after any interleaving of save_pdf_files calls every document a
\* call has returned to its caller as saved, and that no delete_document
\* has removed, is in the registry, where get_document_path and
\* index_document find it.
C26_RegistryKeepsSaved ==
    \A id \in u_returned \ Deleted : get_document_path(registry, id) # NoPath

\* Two calls overlapped and both returned, nothing was deleted: the document
\* of the one that finished first is no longer in the registry.
C26_Witness ==
    /\ u_ret["u1"] = [kind |-> "returned", docs |-> <<NewDocId("u1", 1)>>]
    /\ u_ret["u2"] = [kind |-> "returned", docs |-> <<NewDocId("u2", 1)>>]
    /\ Deleted = {}
    /\ OldDocId \in DOMAIN registry
    /\ NewDocId("u2", 1) \in DOMAIN registry
    /\ get_document_path(registry, NewDocId("u1", 1)) = NoPath

====
